---- MODULE Spec2Model ----
(***************************************************************************)
(* Model of the conversational analytics pipeline of the IvyLeague API:   *)
(* the chat endpoint handle_chat_query and the conversation management and *)
(* generate-sql endpoints (src/api/routers/chat.py), the alert webhook     *)
(* (src/api/routers/transactions.py), the query repair and execution       *)
(* functions (src/api/database/queries.py), the history processors         *)
(* (src/api/ai/agents.py) and the chat manager (src/api/chat/manager.py).  *)
(*                                                                         *)
(* Texts (SQL, error messages, details) are strings handled character by   *)
(* character: Len, SubSeq and \o are applied to them the way Python        *)
(* applies len, slicing and +.  Result rows are opaque, so a result set is *)
(* represented by its number of rows.                                      *)
(***************************************************************************)
EXTENDS Integers, Sequences, FiniteSets, TLC

(***************************************************************************)
(* Text primitives (Python str operations used by the code)                *)
(***************************************************************************)
\* the one element of a one-element set.  Only({e : x \in {v}}) is e with x
\* bound to the value of v: v is evaluated once, as the argument of a
\* Python call is
Only(S) == CHOOSE r \in S : TRUE

LowerLetters == "abcdefghijklmnopqrstuvwxyz"

UpperLetters == "ABCDEFGHIJKLMNOPQRSTUVWXYZ"

Digits == "0123456789"

\* s[i-1:j], clamped to the text as Python slices are
Slice(s, i, j) == IF i > Len(s) \/ j < i THEN "" ELSE SubSeq(s, i, IF j < Len(s) THEN j ELSE Len(s))

\* the i-th character of s (1-based)
Ch(s, i) == Slice(s, i, i)

\* the set of characters of str
CharsOf(str) == {Ch(str, k) : k \in 1..Len(str)}

IndexIn(c, str) == CHOOSE k \in 1..Len(str) : Ch(str, k) = c

UpperOf == [c \in CharsOf(LowerLetters) |-> Ch(UpperLetters, IndexIn(c, LowerLetters))]

LowerOf == [c \in CharsOf(UpperLetters) |-> Ch(LowerLetters, IndexIn(c, UpperLetters))]

UpperCh(c) == IF c \in DOMAIN UpperOf THEN UpperOf[c] ELSE c

LowerCh(c) == IF c \in DOMAIN LowerOf THEN LowerOf[c] ELSE c

RECURSIVE Upper(_)
\* str.upper()
Upper(s) ==
    Only({IF Len(v) = 0 THEN ""
        ELSE IF Len(v) = 1 THEN UpperCh(v)
        ELSE Upper(Slice(v, 1, Len(v) \div 2)) \o Upper(Slice(v, Len(v) \div 2 + 1, Len(v))) : v \in {s}})

RECURSIVE Lower(_)
\* str.lower()
Lower(s) ==
    Only({IF Len(v) = 0 THEN ""
        ELSE IF Len(v) = 1 THEN LowerCh(v)
        ELSE Lower(Slice(v, 1, Len(v) \div 2)) \o Lower(Slice(v, Len(v) \div 2 + 1, Len(v))) : v \in {s}})

\* sub in s
Contains(s, sub) ==
    Only({Len(sub) = 0 \/ \E i \in 1..(Len(v) - Len(sub) + 1) : Slice(v, i, i + Len(sub) - 1) = sub : v \in {s}})

RECURSIVE RStrip(_, _)
\* s.rstrip(c) for a one-character c
RStrip(s, c) ==
    Only({IF Len(v) > 0 /\ Ch(v, Len(v)) = c THEN RStrip(Slice(v, 1, Len(v) - 1), c) ELSE v : v \in {s}})

DigitVal(c) == IndexIn(c, Digits) - 1

RECURSIVE ParseNat(_)
\* int(s) for a string of decimal digits
ParseNat(s) ==
    Only({IF Len(v) = 0 THEN 0 ELSE 10 * ParseNat(Slice(v, 1, Len(v) - 1)) + DigitVal(Ch(v, Len(v))) : v \in {s}})

RECURSIVE NatStr(_)
\* str(n) for n >= 0
NatStr(n) == IF n < 10 THEN Ch(Digits, n + 1) ELSE NatStr(n \div 10) \o Ch(Digits, (n % 10) + 1)

(***************************************************************************)
(* Regular expressions as used by validate_and_fix_query: re.sub with      *)
(* re.IGNORECASE.  A pattern is a sequence of items; Match is the          *)
(* backtracking matcher of the re module (greedy and lazy repetition,      *)
(* optional group, capture groups, \b and lookaheads), returning the first *)
(* match in priority order.                                                *)
(***************************************************************************)
WordChars == CharsOf(LowerLetters) \cup CharsOf(UpperLetters) \cup CharsOf(Digits) \cup {"_"}

IsWordCh(c) == c \in WordChars

IsSpaceCh(c) == c \in {" ", "\t", "\n", "\r"}

\* membership of one character in a character class of the patterns
InClass(cls, c) ==
    CASE cls = "space"    -> IsSpaceCh(c)               \* \s
      [] cls = "word"     -> IsWordCh(c)                \* \w
      [] cls = "notcomma" -> c # ","                    \* [^,]
      [] cls = "notcolon" -> c # ":"                    \* [^:]
      [] cls = "cmp"      -> c \in {">", "<", "="}      \* [><=]
      [] cls = "quote"    -> c \in {"'", "\""}          \* ['"]
      [] cls = "digit"    -> c \in CharsOf(Digits)     \* [0-9]

\* a literal text, matched ignoring case
Lit(str) == [t |-> "lit", up |-> Upper(str), lo |-> Lower(str)]

\* s has the literal at pos, ignoring case
LitAt(it, s, pos) ==
    /\ pos + Len(it.up) - 1 <= Len(s)
    /\ \A k \in 1..Len(it.up) : Ch(s, pos + k - 1) \in {Ch(it.up, k), Ch(it.lo, k)}

\* cls{lo,hi}; hi = -1 is unbounded
Rep(cls, lo, hi, greedy) == [t |-> "rep", cls |-> cls, lo |-> lo, hi |-> hi, greedy |-> greedy]

\* (items)? as capture group g
OptGroup(g, items) == [t |-> "opt", g |-> g, items |-> items]

GroupStart(g) == [t |-> "gs", g |-> g]

GroupEnd(g) == [t |-> "ge", g |-> g]

WordBoundary == [t |-> "wb"]

NotAhead(str) == [t |-> "nla", s |-> str]

\* (?=\s|$|;|\))
AheadEnd == [t |-> "la"]

NoCaps == [g \in 1..2 |-> [from |-> 0, to |-> 0]]

NoMatch == [ok |-> FALSE, end |-> 0, caps |-> NoCaps]

\* number of consecutive characters of class cls starting at pos
RunLen(cls, s, pos) ==
    Only({IF outside = {} THEN Len(s) - pos + 1
        ELSE (CHOOSE p \in outside : \A q \in outside : p <= q) - pos : outside \in {{p \in pos..Len(s) : ~InClass(cls, Ch(s, p))}}})

AtWordBoundary(s, pos) ==
    (pos > 1 /\ IsWordCh(Ch(s, pos - 1))) # (pos <= Len(s) /\ IsWordCh(Ch(s, pos)))

\* lexicographic order of two choice keys
KeyLess(a, b) ==
    \/ /\ Len(a) < Len(b)
       /\ \A k \in 1..Len(a) : a[k] = b[k]
    \/ \E k \in 1..Len(a) :
         /\ k <= Len(b)
         /\ a[k] < b[k]
         /\ \A j \in 1..(k - 1) : a[j] = b[j]

RECURSIVE Run(_, _, _, _)
\* the ways one item can be matched from the partial match st.  A partial
\* match records its position, its captures and, in key, the rank of the
\* alternative taken at each choice point (0 is the one the backtracking
\* matcher tries first: the longest repetition when greedy, the shortest when
\* lazy, the optional group present).
StepItem(it, s, st) ==
    CASE it.t = "lit" ->
            IF LitAt(it, s, st.pos) THEN {[st EXCEPT !.pos = st.pos + Len(it.up)]} ELSE {}
      [] it.t = "rep" ->
            Only({Only({{[st EXCEPT !.pos = st.pos + n,
                            !.key = Append(st.key, IF it.greedy THEN top - n ELSE n - it.lo)] :
                    n \in it.lo..top} : top \in {IF it.hi >= 0 /\ it.hi < run THEN it.hi ELSE run}}) : run \in {RunLen(it.cls, s, st.pos)}})
      [] it.t = "opt" ->
            Only({Run(inner, 1, s, {[st EXCEPT !.key = Append(st.key, 0)]}) : inner \in {<<GroupStart(it.g)>> \o it.items \o <<GroupEnd(it.g)>>}})
            \cup {[st EXCEPT !.key = Append(st.key, 1)]}
      [] it.t = "gs" -> {[st EXCEPT !.caps[it.g].from = st.pos]}
      [] it.t = "ge" -> {[st EXCEPT !.caps[it.g].to = st.pos]}
      [] it.t = "wb" -> IF AtWordBoundary(s, st.pos) THEN {st} ELSE {}
      [] it.t = "nla" -> IF Slice(s, st.pos, st.pos + Len(it.s) - 1) = it.s THEN {} ELSE {st}
      [] it.t = "la" ->
            IF st.pos > Len(s) \/ IsSpaceCh(Ch(s, st.pos)) \/ Ch(s, st.pos) \in {";", ")"}
            THEN {st} ELSE {}

\* the partial matches left after the items k, k+1, .. of the pattern
Run(items, k, s, states) ==
    IF k > Len(items) \/ states = {} THEN states
    ELSE Only({Only({Run(items, k + 1, s, next) : next \in {UNION {StepItem(it, s, st) : st \in states}}}) : it \in {items[k]}})

\* match the pattern at position pos of s (re.IGNORECASE): of all the ways to
\* match, the one the backtracking matcher finds first
Match(items, s, pos) ==
    Only({IF all = {} THEN NoMatch
        ELSE Only({[ok |-> TRUE, end |-> first.pos, caps |-> first.caps] : first \in {CHOOSE m \in all : \A o \in all : o.key = m.key \/ KeyLess(m.key, o.key)}}) : all \in {Run(items, 1, s, {[pos |-> pos, caps |-> NoCaps, key |-> <<>>]})}})

\* text of capture group g; a group that did not take part is empty
Group(s, caps, g) == IF caps[g].from = 0 THEN "" ELSE Slice(s, caps[g].from, caps[g].to - 1)

\* parts of a replacement template: a literal text, or a group reference \g
Txt(str) == [g |-> 0, s |-> str]

Ref(g) == [g |-> g, s |-> ""]

RECURSIVE Expand(_, _, _)
Expand(repl, s, caps) ==
    IF Len(repl) = 0 THEN ""
    ELSE (IF repl[1].g > 0 THEN Group(s, caps, repl[1].g) ELSE repl[1].s)
         \o Only({Expand(rest, s, caps) : rest \in {SubSeq(repl, 2, Len(repl))}})

\* the leftmost position >= pos where the pattern matches, 0 when there is none
Search(pattern, s, pos) ==
    Only({IF hits = {} THEN 0 ELSE CHOOSE i \in hits : \A j \in hits : i <= j : hits \in {{i \in pos..Len(s) : Match(pattern, s, i).ok}}})

RECURSIVE SubFrom(_, _, _, _)
\* re.sub from position pos on: leftmost non-overlapping matches replaced
SubFrom(pattern, repl, s, pos) ==
    Only({IF at = 0 THEN Slice(s, pos, Len(s))
        ELSE Only({Slice(s, pos, at - 1) \o Expand(repl, s, r.caps) \o SubFrom(pattern, repl, s, r.end) : r \in {Match(pattern, s, at)}}) : at \in {Search(pattern, s, pos)}})

\* re.sub(pattern, repl, s, flags=re.IGNORECASE)
ReSub(pattern, repl, s) ==
    Only({Only({Only({SubFrom(pv, rv, sv, 1) : sv \in {s}}) : rv \in {repl}}) : pv \in {pattern}})

(***************************************************************************)
(* validate_and_fix_query (src/api/database/queries.py)                    *)
(***************************************************************************)
Sp1 == Rep("space", 1, -1, TRUE)

Sp0 == Rep("space", 0, -1, TRUE)

\* the CASE expression of the replacements; the template's \' is an unknown
\* escape, which re.sub leaves alone, so the backslashes stay in the output
CaseExpr == "CASE WHEN event_type = \\'SettlementConfirmed\\' THEN \\'SUCCESSFUL\\' ELSE \\'FAILED\\' END"

SummarySubquery == "(WITH latest_events AS (SELECT *, ROW_NUMBER() OVER (PARTITION BY transaction_id ORDER BY timestamp::timestamptz DESC) as rn FROM transactions) SELECT COUNT(*) as total_transactions FROM latest_events WHERE rn = 1)"

\* (pattern, replacement) pairs, in the order of the list common_fixes
common_fixes ==
    << \* SELECT\s+([^,]*,\s*)?final_status\b
       [pattern |-> <<Lit("SELECT"), Sp1,
                      OptGroup(1, <<Rep("notcomma", 0, -1, TRUE), Lit(","), Sp0>>),
                      Lit("final_status"), WordBoundary>>,
        repl    |-> <<Txt("SELECT "), Ref(1), Txt(CaseExpr \o " as final_status")>>],
       \* WHERE\s+final_status\s*=\s*['"](\w+)['"]
       [pattern |-> <<Lit("WHERE"), Sp1, Lit("final_status"), Sp0, Lit("="), Sp0,
                      Rep("quote", 1, 1, TRUE),
                      GroupStart(1), Rep("word", 1, -1, TRUE), GroupEnd(1),
                      Rep("quote", 1, 1, TRUE)>>,
        repl    |-> <<Txt("WHERE (" \o CaseExpr \o ") = \\'"), Ref(1), Txt("\\'")>>],
       \* ORDER BY\s+final_status\b
       [pattern |-> <<Lit("ORDER BY"), Sp1, Lit("final_status"), WordBoundary>>,
        repl    |-> <<Txt("ORDER BY (" \o CaseExpr \o ")")>>],
       \* WHERE\s+success_rate\s*[><=]
       [pattern |-> <<Lit("WHERE"), Sp1, Lit("success_rate"), Sp0, Rep("cmp", 1, 1, TRUE)>>,
        repl    |-> <<Txt("WHERE (SELECT success_rate FROM transaction_summary)")>>],
       \* WHERE\s+count\s*[><=]
       [pattern |-> <<Lit("WHERE"), Sp1, Lit("count"), Sp0, Rep("cmp", 1, 1, TRUE)>>,
        repl    |-> <<Txt("WHERE transaction_count")>>],
       \* FROM\s+transaction_summary\b
       [pattern |-> <<Lit("FROM"), Sp1, Lit("transaction_summary"), WordBoundary>>,
        repl    |-> <<Txt("FROM " \o SummarySubquery \o " as transaction_summary")>>] >>

\* the timestamp fixes with the (?!::) of the ORDER BY and GROUP BY patterns left out
timestamp_fixes_any_suffix ==
    << [pattern |-> <<WordBoundary, Lit("timestamp"), Sp0,
                      GroupStart(1), Rep("cmp", 1, -1, TRUE), GroupEnd(1), Sp0,
                      GroupStart(2), Rep("notcolon", 1, -1, FALSE), GroupEnd(2), AheadEnd>>,
        repl    |-> <<Txt("timestamp::timestamptz "), Ref(1), Txt(" "), Ref(2)>>],
       [pattern |-> <<Lit("ORDER BY"), Sp1, Lit("timestamp"), WordBoundary>>,
        repl    |-> <<Txt("ORDER BY timestamp::timestamptz")>>],
       [pattern |-> <<Lit("GROUP BY"), Sp1, Lit("timestamp"), WordBoundary>>,
        repl    |-> <<Txt("GROUP BY timestamp::timestamptz")>>] >>

timestamp_fixes ==
    << \* \btimestamp\s*([><=]+)\s*([^:]+?)(?=\s|$|;|\))
       [pattern |-> <<WordBoundary, Lit("timestamp"), Sp0,
                      GroupStart(1), Rep("cmp", 1, -1, TRUE), GroupEnd(1), Sp0,
                      GroupStart(2), Rep("notcolon", 1, -1, FALSE), GroupEnd(2), AheadEnd>>,
        repl    |-> <<Txt("timestamp::timestamptz "), Ref(1), Txt(" "), Ref(2)>>],
       \* ORDER BY\s+timestamp\b(?!::)
       [pattern |-> <<Lit("ORDER BY"), Sp1, Lit("timestamp"), WordBoundary, NotAhead("::")>>,
        repl    |-> <<Txt("ORDER BY timestamp::timestamptz")>>],
       \* GROUP BY\s+timestamp\b(?!::)
       [pattern |-> <<Lit("GROUP BY"), Sp1, Lit("timestamp"), WordBoundary, NotAhead("::")>>,
        repl    |-> <<Txt("GROUP BY timestamp::timestamptz")>>] >>

RECURSIVE ApplyFixes(_, _, _)
\* for pattern, replacement in fixes: fixed_query = re.sub(pattern, replacement, fixed_query)
ApplyFixes(fixes, k, fixed_query) ==
    IF k > Len(fixes) THEN fixed_query
    ELSE Only({ApplyFixes(fixes, k + 1, fixed) : fixed \in {ReSub(fixes[k].pattern, fixes[k].repl, fixed_query)}})

validate_and_fix_query(sql_query) ==
    Only({ApplyFixes(timestamp_fixes, 1, fixed_query) : fixed_query \in {ApplyFixes(common_fixes, 1, sql_query)}})

(***************************************************************************)
(* Configuration (src/api/config.py)                                       *)
(***************************************************************************)
MAX_QUERY_RESULTS == 1000

(***************************************************************************)
(* Exceptions and call results.  A call either returns a value or raises;  *)
(* a collaborator (model call, store call) may also not answer in time.    *)
(***************************************************************************)
HTTPException(status_code, detail) == [cls |-> "HTTPException", status_code |-> status_code, detail |-> detail]

\* any exception that is not an HTTPException, with its message
OtherException(msg) == [cls |-> "Exception", status_code |-> 0, detail |-> msg]

\* str(e): starlette formats an HTTPException as "<status>: <detail>"
StrExc(e) == IF e.cls = "HTTPException" THEN NatStr(e.status_code) \o ": " \o e.detail ELSE e.detail

Returns(value) == [kind |-> "return", value |-> value, e |-> OtherException("")]

Raises(e) == [kind |-> "raise", value |-> 0, e |-> e]

\* the awaited call does not complete within the timeout
Hangs == [kind |-> "hang", value |-> 0, e |-> OtherException("")]

NoResult == [kind |-> "none", value |-> 0, e |-> OtherException("")]

\* with_timeout(coro, timeout_seconds, operation_name), given what the
\* awaited call does
with_timeout(result, operation_name) ==
    IF result.kind = "hang"
    THEN Raises(HTTPException(408, operation_name \o " timed out. Please try a simpler query or check your connection."))
    ELSE result

(***************************************************************************)
(* The transactions store, as execute_query sees it                        *)
(***************************************************************************)
\* SQL reading of a text: the LIMIT clause, if there is one
LimitClause == <<WordBoundary, Lit("LIMIT"), Rep("space", 1, -1, TRUE),
                 GroupStart(1), Rep("digit", 1, -1, TRUE), GroupEnd(1)>>

HasLimitClause(sql) == Only({Search(LimitClause, text, 1) # 0 : text \in {sql}})

\* the number of the LIMIT clause of a text that has one
LimitOf(sql) ==
    Only({Only({Only({ParseNat(Group(text, m.caps, 1)) : m \in {Match(LimitClause, text, at)}}) : at \in {Search(LimitClause, text, 1)}}) : text \in {sql}})

\* SQL reading of a text: a call of the aggregate COUNT(...)
CountCall == <<WordBoundary, Lit("COUNT"), Rep("space", 0, -1, TRUE), Lit("(")>>

HasCountAggregate(sql) == Only({Search(CountCall, text, 1) # 0 : text \in {sql}})

\* the rows conn.fetch(sql) returns when the query matches n rows
RowsFetched(sql, n) ==
    Only({IF HasLimitClause(text) /\ LimitOf(text) < n THEN LimitOf(text) ELSE n : text \in {sql}})

\* error messages of the store: undefined column, undefined table,
\* undefined function, syntax error
StoreErrorMessage(kind, name) ==
    CASE kind = "undefined_column"   -> "column \"" \o name \o "\" does not exist"
      [] kind = "undefined_table"    -> "relation \"" \o name \o "\" does not exist"
      [] kind = "undefined_function" -> "function " \o name \o "(text, text) does not exist"
      [] kind = "syntax_error"       -> "syntax error at or near \"" \o name \o "\""

(***************************************************************************)
(* Inputs: what callers send and what the collaborators answer             *)
(***************************************************************************)
\* conversation ids (uuid4 values)
ChatIds == {"c1", "c2"}

\* request.query
UserQueries == {"", "How many transactions failed?"}

\* labels the classification model may answer
QueryTypes == {"simple", "sql"}

\* texts the SQL generation model may answer
GeneratedSQL ==
    { "SELECT * FROM transactions",
      "SELECT account_id FROM transactions;",
      "SELECT event_type, COUNT(*) FROM transactions GROUP BY event_type",
      "SELECT final_status FROM transactions LIMIT 5",
      "SELECT * FROM transactions WHERE timestamp >= NOW()" }

\* number of rows a query matches in the store
RowChoices == {0, 1, MAX_QUERY_RESULTS, MAX_QUERY_RESULTS + 1}

\* failures of the store while it runs a query: <<kind, offending name>>
StoreErrors ==
    { <<"undefined_column", "final_status">>,
      <<"undefined_column", "total_count">>,
      <<"undefined_column", "user_name">>,
      <<"undefined_table", "transaction_summary">>,
      <<"undefined_function", "count">>,
      <<"syntax_error", "FROM">> }

\* narrative summaries the summarization model may answer
Summaries == {"All transactions settled."}

ResponseSummaries == {"Two failed. {}"}

(***************************************************************************)
(* State                                                                   *)
(***************************************************************************)
VARIABLES
    req,                \* frame of the handle_chat_query call in progress (in
                        \* TurnsSpec: the frames of the calls in progress)
    exec,               \* frame of the execute_query call in progress
    chat_message_cache, \* manager.chat_message_cache: chat id -> messages
    chats,              \* rows of the durable chats table, oldest first
    open_conns,         \* connections open on the transactions / chats store
    calls,              \* collaborator calls made by the request in progress
    response,           \* what handle_chat_query gave its caller
    call                \* frame of the last call of one of the other endpoints

vars == <<req, exec, chat_message_cache, chats, open_conns, calls, response, call>>

IdleExec ==
    [pc |-> "idle", sql_query |-> "", conn |-> "None", limited_query |-> "",
     fetched |-> NoResult, error |-> <<>>, out |-> NoResult]

\* ChatResponse (src/api/models/schemas.py); insights, recommendation and
\* execution_time_ms are left out, data is the number of rows
ChatResponse(success, chat_id, query, sql_query, data, summary, response_summary, record_count) ==
    [success |-> success, chat_id |-> chat_id, query |-> query, sql_query |-> sql_query,
     data |-> data, summary |-> summary, response_summary |-> response_summary,
     record_count |-> record_count]

\* locals of handle_chat_query and handle_simple_llm_query, and the position
IdleReq ==
    [pc |-> "idle", request |-> [query |-> "", chat_type |-> "new", chat_id |-> "None"],
     chat_id |-> "None", message_history |-> <<>>,
     classify_outcome |-> "",                   \* how the classification call ended
     classify_context |-> <<>>,                 \* messages sent to the classification model
     gen_context |-> <<>>,                      \* messages sent to the generation model
     summarize_outcome |-> "",                  \* how the summarization call ended
     response_summary_outcome |-> "",           \* how the response-summary call ended
     persist_mode |-> "",                       \* what the store did during update_chat_history
     query_type |-> "", augmented_query |-> "",
     gen_prompt |-> "", gen_history |-> <<>>,   \* arguments of the last sql_agent.run
     generated |-> "",                          \* sql_query of the last generation
     caught |-> OtherException(""),             \* e of the first execute_query
     sql_messages |-> <<>>,                     \* sql_result.all_messages()
     all_messages |-> <<>>,                     \* messages handed to update_chat_history
     sql_query |-> "", data |-> 0, summary |-> "",
     chat_response |-> ChatResponse(FALSE, "", "", "", 0, "", "None", 0)]

\* number of calls of each collaborator made by the request
NoCalls ==
    [classify |-> 0, generate |-> 0, execute |-> 0, summarize |-> 0,
     response_summary |-> 0, persist |-> 0]

EmptyCache == [c \in {} |-> <<>>]

\* ApiResponse (src/api/models/schemas.py); data is a record
ApiResponse(success, message, data, error) ==
    [success |-> success, message |-> message, data |-> data, error |-> error]

\* data = None in an ApiResponse
NoData == [none |-> TRUE]

\* no call of the other endpoints (conversation management, generate-sql,
\* webhook) was made: op is the endpoint, chat_id, text and state are its
\* arguments, log the calls it made in order (function, what the callee's
\* store or model did, what the function gave back), result what the
\* caller got, n the number of such calls made so far
IdleCall ==
    [op |-> "none", pc |-> "idle", chat_id |-> "None", text |-> "", state |-> "",
     log |-> <<>>, result |-> [NoResult EXCEPT !.value = ApiResponse(FALSE, "", NoData, "None")],
     n |-> 0]

\* the messages one model run adds to the history it was given
NewMessages == <<"request", "response">>

\* a row of the chats table (the serialized response is left out)
ChatRow(chat_id, query, summary) == [chat_id |-> chat_id, query |-> query, summary |-> summary]

\* what earlier requests may have left behind: nothing; a conversation c1
\* in cache and store; c1 in the store only (the process restarted); c1 in
\* the cache only (its insert failed); c1 after two and after three turns
\* of the SQL path, each later turn having loaded a context message first;
\* c1 after two turns with one turn of a conversation c2 in between.
\* A turn of the SQL path adds the messages of one run of sql_agent and of
\* one run of summary_agent on its messages, and inserts one row.
PriorStates ==
    LET SqlTurn == NewMessages \o NewMessages
        TurnRow == ChatRow("c1", "How many transactions failed?", "Two failed. {}")
    IN  { [cache |-> EmptyCache, chats |-> <<>>],
          [cache |-> [c \in {"c1"} |-> SqlTurn], chats |-> <<TurnRow>>],
          [cache |-> EmptyCache, chats |-> <<TurnRow>>],
          [cache |-> [c \in {"c1"} |-> NewMessages], chats |-> <<>>],
          [cache |-> [c \in {"c1"} |-> SqlTurn \o <<"context">> \o SqlTurn],
           chats |-> <<TurnRow, TurnRow>>],
          [cache |-> [c \in {"c1"} |-> SqlTurn \o <<"context">> \o SqlTurn \o <<"context">> \o SqlTurn],
           chats |-> <<TurnRow, TurnRow, TurnRow>>],
          [cache |-> [c \in ChatIds |-> IF c = "c1" THEN SqlTurn \o <<"context">> \o SqlTurn ELSE SqlTurn],
           chats |-> <<TurnRow, [TurnRow EXCEPT !.chat_id = "c2"], TurnRow>>] }

Init ==
    /\ req = IdleReq
    /\ exec = IdleExec
    /\ \E prior \in PriorStates :
         /\ chat_message_cache = prior.cache
         /\ chats = prior.chats
    /\ open_conns = [transactions |-> 0, chats |-> 0]
    /\ calls = NoCalls
    /\ response = NoResult
    /\ call = IdleCall

(***************************************************************************)
(* execute_query (src/api/database/queries.py)                             *)
(***************************************************************************)
ComputedColumnDetail == "Query references a computed column from previous conversation. Please rephrase your question - I'll generate a fresh query with proper column references."

\* limited_query (lines 60-63)
LimitedQuery(sql_query) ==
    IF ~Contains(Upper(sql_query), "LIMIT") /\ ~Contains(Upper(sql_query), "COUNT")
    THEN RStrip(sql_query, ";") \o " LIMIT " \o NatStr(MAX_QUERY_RESULTS) \o ";"
    ELSE sql_query

\* execute_query's except clauses without the test for the word column
ExecuteQueryErrorAnyMissingName(e) ==
    IF e.cls = "TimeoutError"
    THEN HTTPException(408, "Database query timed out. Please try a simpler query.")
    ELSE LET error_msg == StrExc(e)
         IN  IF /\ Contains(Lower(error_msg), "does not exist")
                /\ \E computed_col \in {"final_status", "success_rate", "count"} :
                       Contains(Lower(error_msg), computed_col)
             THEN HTTPException(400, ComputedColumnDetail)
             ELSE HTTPException(500, "Failed to execute query: " \o StrExc(e))

\* the except clauses of execute_query (lines 75-91): the exception raised
\* in place of e
ExecuteQueryError(e) ==
    IF e.cls = "TimeoutError"
    THEN HTTPException(408, "Database query timed out. Please try a simpler query.")
    ELSE LET error_msg == StrExc(e)
         IN  IF /\ Contains(Lower(error_msg), "column")
                /\ Contains(Lower(error_msg), "does not exist")
                /\ \E computed_col \in {"final_status", "success_rate", "count"} :
                       Contains(Lower(error_msg), computed_col)
             THEN HTTPException(400, ComputedColumnDetail)
             ELSE HTTPException(500, "Failed to execute query: " \o StrExc(e))

\* get_transactions_db_connection (src/api/database/connection.py), given
\* whether asyncpg.connect succeeds
get_transactions_db_connection(connected) ==
    IF connected THEN Returns("open")
    ELSE Raises(HTTPException(500, "Transactions database connection failed: connection refused"))

\* every text execute_query may be handed: a generated text, repaired or not
QueryTexts == GeneratedSQL \cup {validate_and_fix_query(sql) : sql \in GeneratedSQL}

\* limited_query of every such text
limited_query_of == [sql_query \in QueryTexts |-> LimitedQuery(sql_query)]

\* what conn.fetch gives for every such text and number of matching rows
rows_fetched == [sql_query \in QueryTexts |->
                    [n \in RowChoices |-> RowsFetched(LimitedQuery(sql_query), n)]]

\* the exception the store raises for each failure of StoreErrors
StoreException(err) == OtherException(StoreErrorMessage(err[1], err[2]))

\* what the try block of execute_query may raise
RaisedInTry ==
    {StoreException(err) : err \in StoreErrors}
        \cup {get_transactions_db_connection(FALSE).e,
              with_timeout(Hangs, "Database query execution").e}

\* what execute_query raises in place of each
execute_query_error == [e \in RaisedInTry |-> ExecuteQueryError(e)]

\* entry of execute_query(sql_query): conn = None
CallExecuteQuery(sql_query) == [IdleExec EXCEPT !.pc = "connect", !.sql_query = sql_query]

\* conn = await get_transactions_db_connection()
ExecConnect ==
    /\ exec.pc = "connect"
    /\ \E connected \in BOOLEAN :
         LET r == get_transactions_db_connection(connected)
         IN  IF r.kind = "return"
             THEN /\ exec' = [exec EXCEPT !.pc = "fetch", !.conn = "open"]
                  /\ open_conns' = [open_conns EXCEPT !.transactions = @ + 1]
             ELSE /\ exec' = [exec EXCEPT !.pc = "finally", !.out = Raises(execute_query_error[r.e])]
                  /\ UNCHANGED open_conns
    /\ UNCHANGED <<req, chat_message_cache, chats, calls, response>>
    /\ UNCHANGED call

\* rows = await with_timeout(conn.fetch(limited_query), ...), then the return
\* or the except clause
ExecFetch ==
    /\ exec.pc = "fetch"
    /\ LET limited_query == limited_query_of[exec.sql_query]
       IN  \E store \in {"rows", "hang", "error"} :
           \E n \in RowChoices :
           \E err \in StoreErrors :
             /\ store # "rows" => n = 0
             /\ store # "error" => err = <<"syntax_error", "FROM">>
             /\ LET fetched == CASE store = "rows"  -> Returns(rows_fetched[exec.sql_query][n])
                                 [] store = "hang"  -> Hangs
                                 [] store = "error" -> Raises(StoreException(err))
                    rows    == with_timeout(fetched, "Database query execution")
                IN  exec' = [exec EXCEPT
                               !.pc = "finally",
                               !.limited_query = limited_query,
                               !.fetched = fetched,
                               !.error = IF store = "error" THEN err ELSE <<>>,
                               !.out = IF rows.kind = "return" THEN Returns(rows.value)
                                       ELSE Raises(execute_query_error[rows.e])]
    /\ UNCHANGED <<req, chat_message_cache, chats, open_conns, calls, response>>
    /\ UNCHANGED call

\* a close placed after the fetch instead of in a finally block: it is
\* skipped when the fetch raised
ExecCloseAfterFetchOnly ==
    /\ exec.pc = "finally"
    /\ IF exec.conn # "None" /\ exec.out.kind = "return"
       THEN /\ exec' = [exec EXCEPT !.pc = "done", !.conn = "closed"]
            /\ open_conns' = [open_conns EXCEPT !.transactions = @ - 1]
       ELSE /\ exec' = [exec EXCEPT !.pc = "done"]
            /\ UNCHANGED open_conns
    /\ UNCHANGED <<req, chat_message_cache, chats, calls, response>>
    /\ UNCHANGED call

\* finally: if conn is not None: await conn.close()
ExecFinally ==
    /\ exec.pc = "finally"
    /\ IF exec.conn # "None"
       THEN /\ exec' = [exec EXCEPT !.pc = "done", !.conn = "closed"]
            /\ open_conns' = [open_conns EXCEPT !.transactions = @ - 1]
       ELSE /\ exec' = [exec EXCEPT !.pc = "done"]
            /\ UNCHANGED open_conns
    /\ UNCHANGED <<req, chat_message_cache, chats, calls, response>>
    /\ UNCHANGED call

(***************************************************************************)
(* Chat manager (src/api/chat/manager.py).  Each store function is given   *)
(* what the chats store does during the call: it works, the connection     *)
(* fails, or a statement fails after the connection was made.              *)
(***************************************************************************)
StoreModes == {"ok", "connect_fail", "statement_fail"}

StatementError == OtherException("connection was closed in the middle of operation")

\* connections a store function leaves open: conn.close() follows the
\* statement inside the try block, so a failing statement skips it
LeftOpen(mode) == IF mode = "statement_fail" THEN 1 ELSE 0

\* chat_message_cache[chat_id] = messages
CachePut(cache, chat_id, messages) ==
    [c \in DOMAIN cache \cup {chat_id} |-> IF c = chat_id THEN messages ELSE cache[c]]

\* create_new_chat, given the uuid drawn
create_new_chat(cache, chat_id) == CachePut(cache, chat_id, <<>>)

chat_exists_in_db(chat_id, rows, mode) ==
    IF mode = "ok" THEN \E i \in 1..Len(rows) : rows[i].chat_id = chat_id ELSE FALSE

\* SELECT summary ... WHERE chat_id = $1 AND summary IS NOT NULL
\* ORDER BY timestamp DESC LIMIT 5
LastSummaries(chat_id, rows) ==
    LET hits == SelectSeq(rows, LAMBDA row : row.chat_id = chat_id /\ row.summary # "None")
    IN  IF Len(hits) > 5 THEN SubSeq(hits, Len(hits) - 4, Len(hits)) ELSE hits

\* a load that builds the messages without touching the cache
LoadWithoutCaching(chat_id, cache, rows, mode) ==
    IF mode # "ok" THEN [result |-> Raises(StatementError), cache |-> cache]
    ELSE LET summaries == LastSummaries(chat_id, rows)
             cached    == IF chat_id \in DOMAIN cache THEN cache[chat_id] ELSE <<>>
         IN  [result |-> Returns(IF \E i \in 1..Len(summaries) : summaries[i].summary # ""
                                 THEN Append(cached, "context") ELSE cached),
              cache |-> cache]

\* load_chat_messages_from_db: the result and the cache it leaves
load_chat_messages_from_db(chat_id, cache, rows, mode) ==
    CASE mode = "connect_fail" ->
           [result |-> Raises(HTTPException(500, "Chats database connection failed: connection refused")),
            cache |-> cache]
      [] mode = "statement_fail" -> [result |-> Raises(StatementError), cache |-> cache]
      [] mode = "ok" ->
           LET summaries == LastSummaries(chat_id, rows)
               present   == IF chat_id \in DOMAIN cache THEN cache ELSE CachePut(cache, chat_id, <<>>)
               with_ctx  == IF \E i \in 1..Len(summaries) : summaries[i].summary # ""
                            THEN CachePut(present, chat_id, Append(present[chat_id], "context"))
                            ELSE present
           IN  [result |-> Returns(with_ctx[chat_id]), cache |-> with_ctx]

\* a save that skips a query the conversation already has a row for
SaveUnlessRecorded(rows, chat_id, query, response_summary, mode) ==
    IF mode = "ok" /\ ~\E i \in 1..Len(rows) : rows[i].chat_id = chat_id /\ rows[i].query = query
    THEN Append(rows, ChatRow(chat_id, query, response_summary))
    ELSE rows

\* save_chat_query: the rows of the chats table after the call
save_chat_query(rows, chat_id, query, response_summary, mode) ==
    IF mode = "ok" THEN Append(rows, ChatRow(chat_id, query, response_summary)) ELSE rows

(***************************************************************************)
(* History processors (src/api/ai/agents.py)                               *)
(***************************************************************************)
\* messages[-n:]
LastN(messages, n) ==
    IF Len(messages) <= n THEN messages ELSE SubSeq(messages, Len(messages) - n + 1, Len(messages))

\* a processor that keeps the last 8 messages and drops the first
KeepLastEight(messages) == LastN(messages, 8)

\* keep_recent_messages (lines 10-16)
keep_recent_messages(messages) ==
    IF Len(messages) > 8
    THEN IF Len(messages) > 1 THEN <<messages[1]>> \o LastN(messages, 7) ELSE messages
    ELSE messages

\* what an agent built without history processors sends to its model
ModelContextUnprocessed(message_history) == Append(message_history, "request")

\* what an agent built with history_processors=[keep_recent_messages] sends
\* to its model when run with message_history: the history followed by the
\* new request, passed through the processor
ModelContext(message_history) == keep_recent_messages(Append(message_history, "request"))

\* a processor that keeps the last five messages behind the summary
SummarizeKeepingLastFive(messages) ==
    IF Len(messages) > 12
    THEN <<messages[1], "summary">> \o LastN(messages, 5)
    ELSE messages

\* summarize_old_messages; "summary" is the synthetic ModelRequest it builds
summarize_old_messages(messages) ==
    IF Len(messages) > 12
    THEN LET first_msg     == messages[1]
             last_messages == IF Len(messages) >= 4 THEN LastN(messages, 4) ELSE Tail(messages)
         IN  <<first_msg, "summary">> \o last_messages
    ELSE messages

(***************************************************************************)
(* handle_chat_query and handle_simple_llm_query (src/api/routers/chat.py) *)
(***************************************************************************)
ModelError == OtherException("model request failed")

\* what a model call may do: answer one of the values, not answer in time, fail
ModelAnswers(values) ==
    ({"return"} \X values) \cup ({"hang", "raise"} \X {CHOOSE v \in values : TRUE})

\* the awaitable of a model call that behaves as drawn
Answer(drawn) ==
    CASE drawn[1] = "return" -> Returns(drawn[2])
      [] drawn[1] = "hang"   -> Hangs
      [] drawn[1] = "raise"  -> Raises(ModelError)

\* a failure response that leaves the chat id empty when the request has none
ChatIdOrEmpty(chat_id) == IF chat_id \in {"None", ""} THEN "" ELSE chat_id

\* request.chat_id or "unknown"
ChatIdOrUnknown(chat_id) == IF chat_id \in {"None", ""} THEN "unknown" ELSE chat_id

\* the except clauses around the body of handle_chat_query (lines 339-356)
OuterExcept(request, e) ==
    IF e.cls = "HTTPException" THEN Raises(e)
    ELSE Returns(ChatResponse(FALSE, ChatIdOrUnknown(request.chat_id), request.query, "", 0,
                              "Error: " \o StrExc(e), "None", 0))

\* a failure response of the simple path that reports one (empty) row
SimpleExceptCountingRow(request, chat_id, e) ==
    IF e.cls = "HTTPException" THEN Raises(e)
    ELSE Returns(ChatResponse(FALSE, chat_id, request.query, "", 0,
                              "Error handling simple query: " \o StrExc(e), "None", 1))

\* the except clauses around the body of handle_simple_llm_query (lines 107-124)
SimpleExcept(request, chat_id, e) ==
    IF e.cls = "HTTPException" THEN Raises(e)
    ELSE Returns(ChatResponse(FALSE, chat_id, request.query, "", 0,
                              "Error handling simple query: " \o StrExc(e), "None", 0))

AugmentedQuery(query) ==
    "User Query: " \o query \o "\nAvailable Dataset Columns: {...}\nPlease generate a PostgreSQL query to answer this question."

\* a response summary that is left unset when the call fails
ResponseSummaryOrNone(r, summary) ==
    IF r.kind = "return" THEN r.value ELSE "None"

\* response_summary of both paths (lines 85-92 and 317-324)
ResponseSummaryText(r, summary) ==
    IF r.kind = "return" THEN r.value
    ELSE IF r.e.cls = "HTTPException"
         THEN IF r.e.status_code = 408
              THEN "Summary: " \o Slice(summary, 1, 100) \o "... (Summary generation timed out)"
              ELSE "Summary generation failed: " \o StrExc(r.e)
         ELSE "Summary generation error: " \o StrExc(r.e)

\* the request ends: result is what the caller gets
Finish(result) ==
    /\ req' = [req EXCEPT !.pc = "done"]
    /\ response' = result

\* a request arrives; the chat context is set up (lines 132-143)
Request ==
    /\ req.pc = "idle"
    /\ \E query \in UserQueries, chat_type \in {"new", "existing"}, chat_id \in ChatIds \cup {"None"} :
         LET request == [query |-> query, chat_type |-> chat_type, chat_id |-> chat_id]
         IN  IF chat_type = "new"
             THEN /\ chat_id = "None"
                  /\ \E uuid \in ChatIds :
                       /\ uuid \notin DOMAIN chat_message_cache
                       /\ \A i \in 1..Len(chats) : chats[i].chat_id # uuid
                       /\ chat_message_cache' = create_new_chat(chat_message_cache, uuid)
                       /\ req' = [req EXCEPT !.pc = "classify", !.request = request,
                                             !.chat_id = uuid, !.message_history = <<>>]
                  /\ UNCHANGED response
             ELSE IF chat_id = "None"
                  THEN /\ req' = [req EXCEPT !.pc = "done", !.request = request]
                       /\ response' = OuterExcept(request,
                              HTTPException(400, "chat_id is required when chat_type is 'existing'"))
                       /\ UNCHANGED chat_message_cache
                  ELSE /\ req' = [req EXCEPT !.pc = "exists", !.request = request, !.chat_id = chat_id]
                       /\ UNCHANGED <<chat_message_cache, response>>
    /\ UNCHANGED <<exec, chats, open_conns, calls>>
    /\ call' = IdleCall    \* a new request: the frame of the finished call is gone

\* chat_exists = await chat_exists_in_db(chat_id) or chat_id in chat_message_cache
CheckExists ==
    /\ req.pc = "exists"
    /\ \E mode \in StoreModes :
         LET chat_exists == \/ chat_exists_in_db(req.chat_id, chats, mode)
                            \/ req.chat_id \in DOMAIN chat_message_cache
         IN  /\ open_conns' = [open_conns EXCEPT !.chats = @ + LeftOpen(mode)]
             /\ IF ~chat_exists
                THEN Finish(OuterExcept(req.request,
                         HTTPException(404, "Chat " \o req.chat_id \o " not found")))
                ELSE /\ req' = [req EXCEPT !.pc = "load"]
                     /\ UNCHANGED response
    /\ UNCHANGED <<exec, chat_message_cache, chats, calls>>
    /\ UNCHANGED call

\* message_history = await load_chat_messages_from_db(chat_id); the function
\* first awaits load_chat_history_from_db, whose result it does not use
LoadMessages ==
    /\ req.pc = "load"
    /\ \E history_mode \in StoreModes, mode \in StoreModes :
         LET loaded == load_chat_messages_from_db(req.chat_id, chat_message_cache, chats, mode)
         IN  /\ open_conns' = [open_conns EXCEPT !.chats = @ + LeftOpen(history_mode) + LeftOpen(mode)]
             /\ chat_message_cache' = loaded.cache
             /\ IF loaded.result.kind = "return"
                THEN /\ req' = [req EXCEPT !.pc = "classify", !.message_history = loaded.result.value]
                     /\ UNCHANGED response
                ELSE Finish(OuterExcept(req.request, loaded.result.e))
    /\ UNCHANGED <<exec, chats, calls>>
    /\ UNCHANGED call

\* a classification step whose except clauses re-raise whatever they catch
ClassifyFatal ==
    /\ req.pc = "classify"
    /\ \E drawn \in ModelAnswers(QueryTypes) :
         LET r == with_timeout(Answer(drawn), "Query type classification")
         IN  /\ calls' = [calls EXCEPT !.classify = @ + 1]
             /\ IF r.kind = "raise"
                THEN Finish(OuterExcept(req.request, r.e))
                ELSE /\ req' = [req EXCEPT
                                  !.pc = IF r.value = "simple" THEN "simple" ELSE "generate",
                                  !.classify_outcome = drawn[1],
                                  !.classify_context = ModelContext(req.message_history),
                                  !.query_type = r.value,
                                  !.augmented_query = IF r.value = "simple" THEN ""
                                                      ELSE AugmentedQuery(req.request.query)]
                     /\ UNCHANGED response
    /\ UNCHANGED <<exec, chat_message_cache, chats, open_conns>>
    /\ UNCHANGED call

\* Step 1 (lines 154-174): classify; a timeout or any exception that is not
\* an HTTPException makes the label sql
Classify ==
    /\ req.pc = "classify"
    /\ \E drawn \in ModelAnswers(QueryTypes) :
         LET r == with_timeout(Answer(drawn), "Query type classification")
         IN  /\ calls' = [calls EXCEPT !.classify = @ + 1]
             /\ IF r.kind = "raise" /\ r.e.cls = "HTTPException" /\ r.e.status_code # 408
                THEN Finish(OuterExcept(req.request, r.e))
                ELSE LET query_type == IF r.kind = "return" THEN r.value ELSE "sql"
                     IN  /\ req' = [req EXCEPT
                                      !.pc = IF query_type = "simple" THEN "simple" ELSE "generate",
                                      !.classify_outcome = drawn[1],
                                      !.classify_context = ModelContext(req.message_history),
                                      !.query_type = query_type,
                                      !.augmented_query = IF query_type = "simple" THEN ""
                                                          ELSE AugmentedQuery(req.request.query)]
                         /\ UNCHANGED response
    /\ UNCHANGED <<exec, chat_message_cache, chats, open_conns>>
    /\ UNCHANGED call

SimpleTimeoutSummary == "I'm here to help with your payment and transaction questions. Could you please rephrase your question?"

\* return await handle_simple_llm_query(...) (line 174): what the simple
\* handler returns is returned, what it raises passes the outer except clauses
ReturnSimple(request, result) ==
    IF result.kind = "raise" THEN OuterExcept(request, result.e) ELSE result

\* a simple answer that keeps the given history when the model call timed out
SimpleRespondKeepingHistory ==
    /\ req.pc = "simple"
    /\ \E drawn \in ModelAnswers(Summaries) :
         LET r == with_timeout(Answer(drawn), "Simple query response generation")
         IN  /\ calls' = [calls EXCEPT !.summarize = @ + 1]
             /\ IF r.kind = "raise" /\ ~(r.e.cls = "HTTPException" /\ r.e.status_code = 408)
                THEN Finish(ReturnSimple(req.request, SimpleExcept(req.request, req.chat_id, r.e)))
                ELSE LET summary == IF r.kind = "return" THEN r.value ELSE SimpleTimeoutSummary
                     IN  /\ req' = [req EXCEPT
                                      !.pc = "simple_response_summary",
                                      !.summarize_outcome = drawn[1],
                                      !.summary = summary,
                                      !.all_messages = IF r.kind = "return"
                                                       THEN req.message_history \o NewMessages
                                                       ELSE req.message_history,
                                      !.chat_response = ChatResponse(TRUE, req.chat_id, req.request.query,
                                                                     "", 0, summary, "None", 0)]
                         /\ UNCHANGED response
    /\ UNCHANGED <<exec, chat_message_cache, chats, open_conns>>
    /\ UNCHANGED call

\* handle_simple_llm_query, lines 21-65: the simple answer and the response object
SimpleRespond ==
    /\ req.pc = "simple"
    /\ \E drawn \in ModelAnswers(Summaries) :
         LET r == with_timeout(Answer(drawn), "Simple query response generation")
         IN  /\ calls' = [calls EXCEPT !.summarize = @ + 1]
             /\ IF r.kind = "raise" /\ ~(r.e.cls = "HTTPException" /\ r.e.status_code = 408)
                THEN Finish(ReturnSimple(req.request, SimpleExcept(req.request, req.chat_id, r.e)))
                ELSE LET summary == IF r.kind = "return" THEN r.value ELSE SimpleTimeoutSummary
                     IN  /\ req' = [req EXCEPT
                                      !.pc = "simple_response_summary",
                                      !.summarize_outcome = drawn[1],
                                      !.summary = summary,
                                      !.all_messages = IF r.kind = "return"
                                                       THEN req.message_history \o NewMessages
                                                       ELSE <<>>,
                                      !.chat_response = ChatResponse(TRUE, req.chat_id, req.request.query,
                                                                     "", 0, summary, "None", 0)]
                         /\ UNCHANGED response
    /\ UNCHANGED <<exec, chat_message_cache, chats, open_conns>>
    /\ UNCHANGED call

\* handle_simple_llm_query, lines 67-95: the response summary, never fatal
SimpleResponseSummary ==
    /\ req.pc = "simple_response_summary"
    /\ \E drawn \in ModelAnswers(ResponseSummaries) :
         LET r == with_timeout(Answer(drawn), "Response summary generation")
         IN  /\ calls' = [calls EXCEPT !.response_summary = @ + 1]
             /\ req' = [req EXCEPT !.pc = "simple_persist",
                                   !.response_summary_outcome = drawn[1],
                                   !.chat_response.response_summary = ResponseSummaryText(r, req.summary)]
    /\ UNCHANGED <<exec, chat_message_cache, chats, open_conns, response>>
    /\ UNCHANGED call

\* a persistence step that reports a failed insert to the caller
UpdateChatHistoryOrFail(mode) ==
    /\ req.request.query = "" => mode = "ok"
    /\ calls' = [calls EXCEPT !.persist = @ + 1]
    /\ chat_message_cache' = CachePut(chat_message_cache, req.chat_id, req.all_messages)
    /\ IF req.request.query # ""
       THEN /\ chats' = save_chat_query(chats, req.chat_id, req.request.query,
                                        req.chat_response.response_summary, mode)
            /\ open_conns' = [open_conns EXCEPT !.chats = @ + LeftOpen(mode)]
       ELSE UNCHANGED <<chats, open_conns>>
    /\ req' = [req EXCEPT !.pc = "done", !.persist_mode = mode]
    /\ response' = IF mode = "ok" THEN Returns(req.chat_response)
                   ELSE OuterExcept(req.request, StatementError)
    /\ UNCHANGED exec
    /\ UNCHANGED call

\* a persistence step that keeps the cache entry when the insert fails
UpdateChatHistoryAtomically(mode) ==
    /\ req.request.query = "" => mode = "ok"
    /\ calls' = [calls EXCEPT !.persist = @ + 1]
    /\ chat_message_cache' = IF mode = "ok"
                             THEN CachePut(chat_message_cache, req.chat_id, req.all_messages)
                             ELSE chat_message_cache
    /\ IF req.request.query # ""
       THEN /\ chats' = save_chat_query(chats, req.chat_id, req.request.query,
                                        req.chat_response.response_summary, mode)
            /\ open_conns' = [open_conns EXCEPT !.chats = @ + LeftOpen(mode)]
       ELSE UNCHANGED <<chats, open_conns>>
    /\ req' = [req EXCEPT !.pc = "done", !.persist_mode = mode]
    /\ response' = Returns(req.chat_response)
    /\ UNCHANGED exec
    /\ UNCHANGED call

\* update_chat_history(chat_id, messages, query, response_data, response_summary)
\* and the return of the response; used at lines 98-105 and 330-337
UpdateChatHistoryAndReturn(mode) ==
    /\ req.request.query = "" => mode = "ok"
    /\ calls' = [calls EXCEPT !.persist = @ + 1]
    /\ chat_message_cache' = CachePut(chat_message_cache, req.chat_id, req.all_messages)
    /\ IF req.request.query # ""
       THEN /\ chats' = save_chat_query(chats, req.chat_id, req.request.query,
                                        req.chat_response.response_summary, mode)
            /\ open_conns' = [open_conns EXCEPT !.chats = @ + LeftOpen(mode)]
       ELSE UNCHANGED <<chats, open_conns>>
    /\ req' = [req EXCEPT !.pc = "done", !.persist_mode = mode]
    /\ response' = Returns(req.chat_response)
    /\ UNCHANGED exec
    /\ UNCHANGED call

\* handle_simple_llm_query, lines 97-105
SimplePersist ==
    /\ req.pc = "simple_persist"
    /\ \E mode \in StoreModes : UpdateChatHistoryAndReturn(mode)

\* validated_query (line 210) of every text the model may generate
validated_query_of == [sql \in GeneratedSQL |-> validate_and_fix_query(sql)]

\* Step 3 and the first half of step 4 (lines 183-215): generate, repair,
\* call execute_query
Generate ==
    /\ req.pc = "generate"
    /\ \E drawn \in ModelAnswers(GeneratedSQL) :
         LET r == with_timeout(Answer(drawn), "SQL generation")
         IN  /\ calls' = [calls EXCEPT !.generate = @ + 1,
                                       !.execute = IF r.kind = "return" THEN @ + 1 ELSE @]
             /\ IF r.kind = "raise"
                THEN /\ Finish(OuterExcept(req.request,
                            IF r.e.cls = "HTTPException" /\ r.e.status_code = 408
                            THEN HTTPException(408, "AI query generation timed out. Please try a simpler question.")
                            ELSE r.e))
                     /\ UNCHANGED exec
                ELSE LET validated_query == validated_query_of[r.value]
                     IN  /\ req' = [req EXCEPT !.pc = "execute",
                                               !.gen_prompt = req.augmented_query,
                                               !.gen_history = req.message_history,
                                               !.gen_context = ModelContext(req.message_history),
                                               !.generated = r.value,
                                               !.sql_messages = req.message_history \o NewMessages,
                                               !.sql_query = validated_query]
                         /\ exec' = CallExecuteQuery(validated_query)
                         /\ UNCHANGED response
    /\ UNCHANGED <<chat_message_cache, chats, open_conns>>
    /\ UNCHANGED call

\* the errors of execute_query that line 217 sends to the retry
RetriedErrors ==
    {e \in {execute_query_error[x] : x \in RaisedInTry} :
        e.status_code = 400 /\ Contains(e.detail, "computed column")}

\* data = await execute_query(...) has ended (lines 214-231, first call)
AfterExecute ==
    /\ req.pc = "execute"
    /\ exec.pc = "done"
    /\ IF exec.out.kind = "return"
       THEN /\ req' = [req EXCEPT !.pc = "summarize", !.data = exec.out.value]
            /\ UNCHANGED response
       ELSE LET e == exec.out.e
            IN  IF e \in RetriedErrors
                THEN /\ req' = [req EXCEPT !.pc = "regenerate", !.caught = e]
                     /\ UNCHANGED response
                ELSE Finish(OuterExcept(req.request, e))
    /\ exec' = IdleExec
    /\ UNCHANGED <<chat_message_cache, chats, open_conns, calls>>
    /\ UNCHANGED call

\* the regenerated text handed on as the model wrote it
FreshUnvalidated(sql_query) == sql_query

\* fresh_validated_query (line 225)
FreshValidated(sql_query) == validate_and_fix_query(sql_query)

\* fresh_validated_query of every text the model may generate
fresh_validated_query_of == [sql \in GeneratedSQL |-> FreshValidated(sql)]

\* the retry (lines 217-228): a fresh generation without history, repaired
\* and handed to execute_query
Regenerate ==
    /\ req.pc = "regenerate"
    /\ \E drawn \in ModelAnswers(GeneratedSQL) :
         LET r == with_timeout(Answer(drawn), "Fresh SQL generation")
         IN  /\ calls' = [calls EXCEPT !.generate = @ + 1,
                                       !.execute = IF r.kind = "return" THEN @ + 1 ELSE @]
             /\ IF r.kind = "raise"
                THEN /\ Finish(OuterExcept(req.request, r.e))
                     /\ UNCHANGED exec
                ELSE LET fresh_validated_query == fresh_validated_query_of[r.value]
                     IN  /\ req' = [req EXCEPT !.pc = "execute_fresh",
                                               !.gen_prompt = req.augmented_query,
                                               !.gen_history = <<>>,
                                               !.gen_context = ModelContext(<<>>),
                                               !.generated = r.value]
                         /\ exec' = CallExecuteQuery(fresh_validated_query)
                         /\ UNCHANGED response
    /\ UNCHANGED <<chat_message_cache, chats, open_conns>>
    /\ UNCHANGED call

\* a second execute_query whose computed-column failure is retried again
AfterExecuteFreshRetrying ==
    /\ req.pc = "execute_fresh"
    /\ exec.pc = "done"
    /\ IF exec.out.kind = "return"
       THEN /\ req' = [req EXCEPT !.pc = "summarize", !.data = exec.out.value,
                                  !.sql_query = exec.sql_query]
            /\ UNCHANGED response
       ELSE LET e == exec.out.e
            IN  IF e \in RetriedErrors
                THEN /\ req' = [req EXCEPT !.pc = "regenerate", !.caught = e]
                     /\ UNCHANGED response
                ELSE Finish(OuterExcept(req.request, e))
    /\ exec' = IdleExec
    /\ UNCHANGED <<chat_message_cache, chats, open_conns, calls>>
    /\ UNCHANGED call

\* a second execute_query after which the response keeps the first query text
AfterExecuteFreshKeepingFirstQuery ==
    /\ req.pc = "execute_fresh"
    /\ exec.pc = "done"
    /\ IF exec.out.kind = "return"
       THEN /\ req' = [req EXCEPT !.pc = "summarize", !.data = exec.out.value]
            /\ UNCHANGED response
       ELSE Finish(OuterExcept(req.request, exec.out.e))
    /\ exec' = IdleExec
    /\ UNCHANGED <<chat_message_cache, chats, open_conns, calls>>
    /\ UNCHANGED call

\* the second execute_query has ended (lines 228-231)
AfterExecuteFresh ==
    /\ req.pc = "execute_fresh"
    /\ exec.pc = "done"
    /\ IF exec.out.kind = "return"
       THEN /\ req' = [req EXCEPT !.pc = "summarize", !.data = exec.out.value,
                                  !.sql_query = exec.sql_query]
            /\ UNCHANGED response
       ELSE Finish(OuterExcept(req.request, exec.out.e))
    /\ exec' = IdleExec
    /\ UNCHANGED <<chat_message_cache, chats, open_conns, calls>>
    /\ UNCHANGED call

NoDataSummary == "No data found matching the query criteria."

SummaryTimeoutText(data) == "Query executed successfully. Retrieved " \o NatStr(data) \o " records."

\* a summarization step whose except clause re-raises the timeout as well
SummarizeFatal ==
    /\ req.pc = "summarize"
    /\ \E drawn \in ModelAnswers(Summaries) :
         LET r == with_timeout(Answer(drawn), "AI summary generation")
         IN  /\ calls' = [calls EXCEPT !.summarize = @ + 1]
             /\ IF r.kind = "raise"
                THEN /\ req' = [req EXCEPT !.pc = "done", !.summarize_outcome = drawn[1]]
                     /\ response' = OuterExcept(req.request, r.e)
                ELSE LET summary == IF req.data > 0 THEN r.value ELSE NoDataSummary
                     IN  /\ req' = [req EXCEPT
                                      !.pc = "response_summary",
                                      !.summarize_outcome = drawn[1],
                                      !.summary = summary,
                                      !.all_messages = IF r.kind = "return"
                                                       THEN req.sql_messages \o NewMessages
                                                       ELSE req.sql_messages,
                                      !.chat_response = ChatResponse(TRUE, req.chat_id, req.request.query,
                                                                     req.sql_query, req.data, summary,
                                                                     "None", req.data)]
                         /\ UNCHANGED response
    /\ UNCHANGED <<exec, chat_message_cache, chats, open_conns>>
    /\ UNCHANGED call

\* Step 5 and the response object (lines 233-294)
Summarize ==
    /\ req.pc = "summarize"
    /\ \E drawn \in ModelAnswers(Summaries) :
         LET r == with_timeout(Answer(drawn), "AI summary generation")
         IN  /\ calls' = [calls EXCEPT !.summarize = @ + 1]
             /\ IF r.kind = "raise" /\ ~(r.e.cls = "HTTPException" /\ r.e.status_code = 408)
                THEN /\ req' = [req EXCEPT !.pc = "done", !.summarize_outcome = drawn[1]]
                     /\ response' = OuterExcept(req.request, r.e)
                ELSE LET summary == IF r.kind = "raise" THEN SummaryTimeoutText(req.data)
                                    ELSE IF req.data > 0 THEN r.value ELSE NoDataSummary
                     IN  /\ req' = [req EXCEPT
                                      !.pc = "response_summary",
                                      !.summarize_outcome = drawn[1],
                                      !.summary = summary,
                                      !.all_messages = IF r.kind = "return"
                                                       THEN req.sql_messages \o NewMessages
                                                       ELSE req.sql_messages,
                                      !.chat_response = ChatResponse(TRUE, req.chat_id, req.request.query,
                                                                     req.sql_query, req.data, summary,
                                                                     "None", req.data)]
                         /\ UNCHANGED response
    /\ UNCHANGED <<exec, chat_message_cache, chats, open_conns>>
    /\ UNCHANGED call

\* Step 6 (lines 296-327): the response summary, never fatal
ResponseSummary ==
    /\ req.pc = "response_summary"
    /\ \E drawn \in ModelAnswers(ResponseSummaries) :
         LET r == with_timeout(Answer(drawn), "Response summary generation")
         IN  /\ calls' = [calls EXCEPT !.response_summary = @ + 1]
             /\ req' = [req EXCEPT !.pc = "persist",
                                   !.response_summary_outcome = drawn[1],
                                   !.chat_response.response_summary = ResponseSummaryText(r, req.summary)]
    /\ UNCHANGED <<exec, chat_message_cache, chats, open_conns, response>>
    /\ UNCHANGED call

\* Step 7 (lines 329-337)
Persist ==
    /\ req.pc = "persist"
    /\ \E mode \in StoreModes : UpdateChatHistoryAndReturn(mode)

Next ==
    \/ Request
    \/ CheckExists
    \/ LoadMessages
    \/ Classify
    \/ SimpleRespond
    \/ SimpleResponseSummary
    \/ SimplePersist
    \/ Generate
    \/ ExecConnect
    \/ ExecFetch
    \/ ExecFinally
    \/ AfterExecute
    \/ Regenerate
    \/ AfterExecuteFresh
    \/ Summarize
    \/ ResponseSummary
    \/ Persist

Spec == Init /\ [][Next]_vars

\* every step is a step of the one task serving the request, which the event
\* loop keeps running: an enabled step is eventually taken
FairSpec ==
    /\ Spec
    /\ WF_vars(Request) /\ WF_vars(CheckExists) /\ WF_vars(LoadMessages) /\ WF_vars(Classify)
    /\ WF_vars(SimpleRespond) /\ WF_vars(SimpleResponseSummary) /\ WF_vars(SimplePersist)
    /\ WF_vars(Generate) /\ WF_vars(ExecConnect) /\ WF_vars(ExecFetch) /\ WF_vars(ExecFinally)
    /\ WF_vars(AfterExecute) /\ WF_vars(Regenerate) /\ WF_vars(AfterExecuteFresh)
    /\ WF_vars(Summarize) /\ WF_vars(ResponseSummary) /\ WF_vars(Persist)

(***************************************************************************)
(* The conversation management endpoints get_all_chats,                    *)
(* get_chat_history_endpoint, delete_chat and update_chat_title            *)
(* (src/api/routers/chat.py, lines 411-548) and the store functions they   *)
(* call (src/api/chat/manager.py, lines 94-146).  A call runs while no     *)
(* chat request is in progress.                                            *)
(***************************************************************************)
\* calls of these endpoints made before the chat request arrives
MaxCalls == 2

\* one entry of call.log
Called(fn, mode, out) == [fn |-> fn, mode |-> mode, out |-> out]

\* SELECT ... WHERE chat_id = $1 ORDER BY timestamp ASC
load_chat_history_from_db(chat_id, rows, mode) ==
    IF mode = "ok" THEN SelectSeq(rows, LAMBDA row : row.chat_id = chat_id) ELSE <<>>

\* SELECT DISTINCT ON (chat_id) id, chat_id, query, timestamp ... ORDER BY
\* chat_id, timestamp ASC: of each conversation the first row in that order;
\* at, the place of the row in the table, stands for its id and timestamp
get_all_chats_from_db(rows, mode) ==
    IF mode = "ok"
    THEN { [chat_id |-> rows[i].chat_id, query |-> rows[i].query, at |-> i] :
             i \in { k \in 1..Len(rows) : \A j \in 1..(k - 1) : rows[j].chat_id # rows[k].chat_id } }
    ELSE {}

\* a delete that reports success whatever the store did
DeleteReportingSuccess(rows, chat_id, mode) ==
    [success |-> TRUE,
     rows |-> IF mode = "ok" THEN SelectSeq(rows, LAMBDA row : row.chat_id # chat_id) ELSE rows]

\* delete_chat_from_db: what it returns and the rows of the table after it
delete_chat_from_db(rows, chat_id, mode) ==
    IF mode = "ok"
    THEN [success |-> TRUE, rows |-> SelectSeq(rows, LAMBDA row : row.chat_id # chat_id)]
    ELSE [success |-> FALSE, rows |-> rows]

delete_chat_from_memory(cache, chat_id) ==
    [c \in DOMAIN cache \ {chat_id} |-> cache[c]]

\* the call of an endpoint has ended with the result, or waits for ever when
\* there is none: its frame, and nothing else of the request state
EndOfCall(op, chat_id, text, state, log, result) ==
    /\ call' = [IdleCall EXCEPT !.op = op, !.chat_id = chat_id, !.text = text, !.state = state,
                                !.pc = IF result.kind = "none" THEN "awaiting" ELSE "done",
                                !.log = log, !.n = call.n + 1,
                                !.result = IF result.kind = "return" THEN result
                                           ELSE [result EXCEPT !.value = IdleCall.result.value]]
    /\ UNCHANGED <<req, exec, calls, response>>

GetAllChats ==
    /\ req.pc = "idle"
    /\ call.pc # "awaiting" /\ call.n < MaxCalls
    /\ \E mode \in StoreModes :
         LET raw_chats_data == get_all_chats_from_db(chats, mode)
         IN  /\ open_conns' = [open_conns EXCEPT !.chats = @ + LeftOpen(mode)]
             /\ EndOfCall("get_all_chats", "None", "", "",
                    <<Called("get_all_chats_from_db", mode, raw_chats_data)>>,
                    Returns(ApiResponse(TRUE, "Retrieved chat records",
                        [chats |-> raw_chats_data, count |-> Cardinality(raw_chats_data)], "None")))
    /\ UNCHANGED <<chat_message_cache, chats>>

GetChatHistory ==
    /\ req.pc = "idle"
    /\ call.pc # "awaiting" /\ call.n < MaxCalls
    /\ \E chat_id \in ChatIds, mode \in StoreModes :
         LET db_history == load_chat_history_from_db(chat_id, chats, mode)
             log        == <<Called("load_chat_history_from_db", mode, db_history)>>
         IN  /\ open_conns' = [open_conns EXCEPT !.chats = @ + LeftOpen(mode)]
             /\ IF db_history = <<>>
                THEN EndOfCall("get_chat_history", chat_id, "", "", log,
                         Returns(ApiResponse(FALSE, "Chat " \o chat_id \o " not found", NoData, "Chat not found")))
                ELSE EndOfCall("get_chat_history", chat_id, "", "", log,
                         Returns(ApiResponse(TRUE, "Retrieved history for chat " \o chat_id,
                             [chat_id |-> chat_id, messages |-> db_history], "None")))
    /\ UNCHANGED <<chat_message_cache, chats>>

\* delete_chat (lines 477-513) from its first statement to its return
delete_chat(chat_id, exists_mode, mode) ==
    LET exists  == chat_exists_in_db(chat_id, chats, exists_mode)
        deleted == delete_chat_from_db(chats, chat_id, mode)
        checked == <<Called("chat_exists_in_db", exists_mode, exists)>>
        log     == Append(checked, Called("delete_chat_from_db", mode, deleted.success))
    IN  IF ~exists
        THEN /\ open_conns' = [open_conns EXCEPT !.chats = @ + LeftOpen(exists_mode)]
             /\ EndOfCall("delete_chat", chat_id, "", "", checked,
                    Returns(ApiResponse(FALSE, "Chat " \o chat_id \o " not found", NoData, "Chat not found")))
             /\ UNCHANGED <<chat_message_cache, chats>>
        ELSE /\ open_conns' = [open_conns EXCEPT !.chats = @ + LeftOpen(exists_mode) + LeftOpen(mode)]
             /\ chats' = deleted.rows
             /\ IF deleted.success
                THEN /\ chat_message_cache' = delete_chat_from_memory(chat_message_cache, chat_id)
                     /\ EndOfCall("delete_chat", chat_id, "", "", log,
                            Returns(ApiResponse(TRUE, "Chat " \o chat_id \o " deleted successfully",
                                [deleted_chat_id |-> chat_id], "None")))
                ELSE /\ UNCHANGED chat_message_cache
                     /\ EndOfCall("delete_chat", chat_id, "", "", log,
                            Returns(ApiResponse(FALSE, "Failed to delete chat " \o chat_id,
                                NoData, "Database deletion failed")))

DeleteChat ==
    /\ req.pc = "idle"
    /\ call.pc # "awaiting" /\ call.n < MaxCalls
    /\ \E chat_id \in ChatIds, exists_mode \in StoreModes, mode \in StoreModes :
         delete_chat(chat_id, exists_mode, mode)

\* a title update that rewrites the first row of the conversation
UpdateChatTitleInPlace ==
    /\ req.pc = "idle"
    /\ call.pc # "awaiting" /\ call.n < MaxCalls
    /\ \E chat_id \in ChatIds, title \in {"Failures"} :
         /\ chat_exists_in_db(chat_id, chats, "ok")
         /\ LET first == CHOOSE i \in 1..Len(chats) :
                            /\ chats[i].chat_id = chat_id
                            /\ \A j \in 1..(i - 1) : chats[j].chat_id # chat_id
            IN  chats' = [chats EXCEPT ![first].query = "[TITLE_UPDATE]: " \o title]
         /\ EndOfCall("update_chat_title", chat_id, title, "",
                <<Called("chat_exists_in_db", "ok", TRUE), Called("save_chat_query", "ok", "None")>>,
                Returns(ApiResponse(TRUE, "Chat title updated successfully",
                    [chat_id |-> chat_id, new_title |-> title], "None")))
    /\ UNCHANGED <<chat_message_cache, open_conns>>

\* update_chat_title: the title is saved as one more row of the conversation
UpdateChatTitle ==
    /\ req.pc = "idle"
    /\ call.pc # "awaiting" /\ call.n < MaxCalls
    /\ \E chat_id \in ChatIds, title \in {"Failures"}, exists_mode \in StoreModes, mode \in StoreModes :
         LET exists  == chat_exists_in_db(chat_id, chats, exists_mode)
             checked == <<Called("chat_exists_in_db", exists_mode, exists)>>
         IN  IF ~exists
             THEN /\ open_conns' = [open_conns EXCEPT !.chats = @ + LeftOpen(exists_mode)]
                  /\ EndOfCall("update_chat_title", chat_id, title, "", checked,
                         Returns(ApiResponse(FALSE, "Chat " \o chat_id \o " not found", NoData, "Chat not found")))
                  /\ UNCHANGED chats
             ELSE /\ open_conns' = [open_conns EXCEPT !.chats = @ + LeftOpen(exists_mode) + LeftOpen(mode)]
                  /\ chats' = save_chat_query(chats, chat_id, "[TITLE_UPDATE]: " \o title, "None", mode)
                  /\ EndOfCall("update_chat_title", chat_id, title, "",
                         Append(checked, Called("save_chat_query", mode, "None")),
                         Returns(ApiResponse(TRUE, "Chat title updated successfully",
                             [chat_id |-> chat_id, new_title |-> title], "None")))
    /\ UNCHANGED chat_message_cache

\* the chat endpoint together with the conversation management endpoints
ConversationsNext ==
    \/ Next
    \/ GetAllChats
    \/ GetChatHistory
    \/ DeleteChat
    \/ UpdateChatTitle

ConversationsSpec == Init /\ [][ConversationsNext]_vars

(***************************************************************************)
(* The endpoint generate_sql_only (src/api/routers/chat.py, lines 388-409)  *)
(* and the alert webhook grafana_webhook (src/api/routers/transactions.py,  *)
(* lines 167-246) with the functions it calls.                             *)
(***************************************************************************)
\* jsonify is the module imported at line 4 of transactions.py: calling it
\* raises TypeError
NotCallable == OtherException("'module' object is not callable")

\* generate_sql_only: sql_agent.run is awaited as it is, so the handler ends
\* when the model answers or fails, and waits for as long as it does neither
generate_sql_only(drawn) ==
    LET sql_result == Answer(drawn)
    IN  CASE sql_result.kind = "return" ->
               Returns(ApiResponse(TRUE, "SQL query generated successfully",
                           [sql_query |-> sql_result.value], "None"))
          [] sql_result.kind = "raise" ->
               Returns(ApiResponse(FALSE, "Failed to generate SQL", NoData, StrExc(sql_result.e)))
          [] sql_result.kind = "hang" -> NoResult

GenerateSqlOnly ==
    /\ call.pc # "awaiting" /\ call.n < MaxCalls
    /\ \E query \in UserQueries, drawn \in ModelAnswers(GeneratedSQL) :
         EndOfCall("generate_sql_only", "None", query, "",
             <<Called("sql_agent.run", drawn[1], IF drawn[1] = "return" THEN drawn[2] ELSE "None")>>,
             generate_sql_only(drawn))
    /\ UNCHANGED <<chat_message_cache, chats, open_conns>>

\* a webhook that processes alerts in every state
AnyState(state) == TRUE

\* the alert is processed: data.get('state') is 'alerting'
IsAlerting(state) == state = "alerting"

\* a webhook that gives up the notification when the insert failed
NotifyAfterInsertOnly(insert_mode, slack_mode) ==
    IF insert_mode = "ok"
    THEN <<Called("insert_transaction_details_to_db", insert_mode, "None"),
           Called("send_alert_to_slack", slack_mode, "None")>>
    ELSE <<Called("insert_transaction_details_to_db", insert_mode, "None")>>

\* the two try blocks after the summary: the insert, whose failure is printed,
\* then the notification, whose failure is printed (when send_alert_to_slack
\* returns, awaiting the dict it returned raises TypeError, printed as well)
PersistThenNotify(insert_mode, slack_mode) ==
    <<Called("insert_transaction_details_to_db", insert_mode, "None"),
      Called("send_alert_to_slack", slack_mode, "None")>>

\* grafana_webhook: the calls it makes in order and how it ends
grafana_webhook(state, message, fetch_mode, drawn, insert_mode, slack_mode) ==
    IF ~IsAlerting(state) \/ message = ""
    THEN \* return jsonify(...) raises inside the try, and again in the handler
         [log |-> <<>>, result |-> Raises(NotCallable)]
    ELSE LET fetched       == Called("transaction_details_from_db", fetch_mode,
                                     IF fetch_mode = "ok" THEN "rows" ELSE "{}")
             simple_result == with_timeout(Answer(drawn), "Failed transaction retry agent")
             generated     == Called("failed_transaction_retry_agent.run", drawn[1],
                                     IF drawn[1] = "return" THEN drawn[2] ELSE "None")
             timed_out     == /\ simple_result.kind = "raise"
                              /\ simple_result.e.cls = "HTTPException"
                              /\ simple_result.e.status_code = 408
             summary       == IF timed_out THEN SimpleTimeoutSummary ELSE simple_result.value
         IN  IF simple_result.kind = "raise" /\ ~timed_out
             THEN [log |-> <<fetched, generated>>, result |-> Raises(NotCallable)]
             ELSE [log |-> <<fetched, generated>> \o PersistThenNotify(insert_mode, slack_mode),
                   result |-> Returns(ApiResponse(TRUE, "Alert processed and analyzed.",
                                          [summary |-> summary], "None"))]

GrafanaWebhook ==
    /\ call.pc # "awaiting" /\ call.n < MaxCalls
    /\ \E state \in {"alerting", "ok"}, message \in {"", "txn_1"},
          fetch_mode \in StoreModes, drawn \in ModelAnswers(Summaries),
          insert_mode \in StoreModes, slack_mode \in {"ok", "fail"} :
         LET handled == grafana_webhook(state, message, fetch_mode, drawn, insert_mode, slack_mode)
             made    == { handled.log[i].fn : i \in 1..Len(handled.log) }
         IN  /\ open_conns' =
                  [open_conns EXCEPT !.chats = @
                      + (IF "transaction_details_from_db" \in made THEN LeftOpen(fetch_mode) ELSE 0)
                      + (IF "insert_transaction_details_to_db" \in made THEN LeftOpen(insert_mode) ELSE 0)]
             /\ EndOfCall("grafana_webhook", "None", message, state, handled.log, handled.result)
    /\ UNCHANGED <<chat_message_cache, chats>>

EndpointsNext ==
    \/ GenerateSqlOnly
    \/ GrafanaWebhook

\* a call that can be made is made (each call adds one to call.n)
EndpointsSpec ==
    /\ Init
    /\ [][EndpointsNext]_vars
    /\ WF_<<call.n>>(GenerateSqlOnly) /\ WF_<<call.n>>(GrafanaWebhook)

(***************************************************************************)
(* Requests served at the same time.  The handlers are coroutines of one   *)
(* event loop: a handler runs alone from one await of a store or model     *)
(* call to the next, and another handler may run in between.  Below, two   *)
(* calls of handle_chat_query in mode existing are in progress, req maps   *)
(* each of them to its frame, and a step is the code of one handler from   *)
(* one await to the next; delete_chat is called while they run.            *)
(***************************************************************************)
Turns == {"a", "b"}

\* calls of delete_chat made while the turns run
MaxDeletes == 1

\* both requests have been received and nothing of them has run.  A frame
\* holds the locals of the handle_chat_query call, its position, and what is
\* recorded of its past
TurnsInit ==
    LET IdleTurn(chat_id, query) ==
            [pc |-> "exists", chat_id |-> chat_id, query |-> query,
             exists_in_db |-> FALSE,       \* what chat_exists_in_db returned
             context |-> FALSE,            \* the summaries query returned a non-empty summary
             message_history |-> <<>>,
             shares |-> FALSE,             \* message_history is the list object of the cache entry
             all_messages |-> <<>>,
             persist_mode |-> "none",      \* what the store did with the insert
             outcome |-> "none",
             overlapped |-> FALSE,         \* another turn was in progress during this one
             seq |-> 0,                    \* position among the calls of update_chat_history
             after_calls |-> 0]            \* calls of delete_chat ended before update_chat_history
    IN  /\ \E chat_id \in ChatIds, queries \in [Turns -> UserQueries] :
             req = [t \in Turns |-> IdleTurn(chat_id, queries[t])]
        /\ exec = IdleExec
        /\ \E prior \in PriorStates :
             /\ chat_message_cache = prior.cache
             /\ chats = prior.chats
        /\ open_conns = [transactions |-> 0, chats |-> 0]
        /\ calls = NoCalls
        /\ response = NoResult
        /\ call = IdleCall

\* turn t runs to its next await and is left with the frame given; others
\* holds what the step makes of the frames of the other turns
TurnStep(t, frame, others) ==
    LET Running(u) == req[u].pc \notin {"exists", "done"}
    IN  req' = [u \in Turns |->
                  IF u = t
                  THEN [frame EXCEPT !.overlapped = @ \/ \E w \in Turns \ {t} : Running(w)]
                  ELSE [others[u] EXCEPT !.overlapped = @ \/ Running(u)]]

\* line 147, the await: chat_exists_in_db reads the table
TurnExists(t) ==
    /\ req[t].pc = "exists"
    /\ \E mode \in StoreModes :
         /\ open_conns' = [open_conns EXCEPT !.chats = @ + LeftOpen(mode)]
         /\ TurnStep(t, [req[t] EXCEPT !.pc = "cached",
                                       !.exists_in_db = chat_exists_in_db(req[t].chat_id, chats, mode)], req)
    /\ UNCHANGED <<exec, chat_message_cache, chats, calls, response, call>>

\* lines 147-150, after the await: the cache is looked at now
TurnCached(t) ==
    /\ req[t].pc = "cached"
    /\ TurnStep(t, IF req[t].exists_in_db \/ req[t].chat_id \in DOMAIN chat_message_cache
                   THEN [req[t] EXCEPT !.pc = "fetch"]
                   ELSE [req[t] EXCEPT !.pc = "done", !.outcome = "not_found"], req)
    /\ UNCHANGED <<exec, chat_message_cache, chats, open_conns, calls, response, call>>

\* load_chat_messages_from_db up to 'await conn.close()' (manager.py:34-44):
\* the summaries are read; a failure ends the request in the except clause
\* of handle_chat_query
TurnFetch(t) ==
    /\ req[t].pc = "fetch"
    /\ \E history_mode \in StoreModes, mode \in StoreModes :
         LET summaries == LastSummaries(req[t].chat_id, chats)
         IN  /\ open_conns' = [open_conns EXCEPT !.chats = @ + LeftOpen(history_mode) + LeftOpen(mode)]
             /\ TurnStep(t, IF mode = "ok"
                            THEN [req[t] EXCEPT !.pc = "load",
                                                !.context = \E i \in 1..Len(summaries) :
                                                               summaries[i].summary # ""]
                            ELSE [req[t] EXCEPT !.pc = "done", !.outcome = "failed"], req)
    /\ UNCHANGED <<exec, chat_message_cache, chats, calls, response, call>>

\* a load that starts from an empty list whatever the cache holds
TurnLoadFromStoreOnly(t) ==
    /\ req[t].pc = "load"
    /\ LET id    == req[t].chat_id
           entry == IF req[t].context THEN <<"context">> ELSE <<>>
       IN  /\ chat_message_cache' = CachePut(chat_message_cache, id, entry)
           /\ TurnStep(t, [req[t] EXCEPT !.pc = "run", !.message_history = entry, !.shares = TRUE],
                       [u \in Turns |-> IF req[u].chat_id = id THEN [req[u] EXCEPT !.shares = FALSE]
                                                               ELSE req[u]])
    /\ UNCHANGED <<exec, chats, open_conns, calls, response, call>>

\* load_chat_messages_from_db after the await (manager.py:46-59): the entry
\* is created if absent, the context message is appended to the list of
\* the entry, and that list object is returned.  A turn that was handed the
\* same list object sees the appended message
TurnLoad(t) ==
    /\ req[t].pc = "load"
    /\ LET id      == req[t].chat_id
           present == id \in DOMAIN chat_message_cache
           before  == IF present THEN chat_message_cache[id] ELSE <<>>
           entry   == IF req[t].context THEN Append(before, "context") ELSE before
       IN  /\ chat_message_cache' = CachePut(chat_message_cache, id, entry)
           /\ TurnStep(t, [req[t] EXCEPT !.pc = "run", !.message_history = entry, !.shares = TRUE],
                       [u \in Turns |->
                          IF req[u].chat_id = id /\ req[u].shares
                          THEN IF present THEN [req[u] EXCEPT !.message_history = entry]
                                          ELSE [req[u] EXCEPT !.shares = FALSE]
                          ELSE req[u]])
    /\ UNCHANGED <<exec, chats, open_conns, calls, response, call>>

\* chat.py, lines 154-327 and 21-96: the model calls of the turn.  The run
\* whose messages are kept (line 33 or line 186) copies message_history when
\* it starts; all_messages is that copy and the messages of the run, with
\* those of the summary run when it answered (line 331), or [] when the
\* simple answer timed out (line 99).  A failure ends the request
TurnRun(t) ==
    /\ req[t].pc = "run"
    /\ \/ \E all_messages \in {req[t].message_history \o NewMessages,
                               req[t].message_history \o NewMessages \o NewMessages,
                               <<>>} :
            TurnStep(t, [req[t] EXCEPT !.pc = "update", !.all_messages = all_messages], req)
       \/ TurnStep(t, [req[t] EXCEPT !.pc = "done", !.outcome = "failed"], req)
    /\ UNCHANGED <<exec, chat_message_cache, chats, open_conns, calls, response, call>>

\* an update that writes the list only to an entry that is still there
TurnUpdateIfCached(t) ==
    /\ req[t].pc = "update"
    /\ LET id == req[t].chat_id
       IN  /\ chat_message_cache' = IF id \in DOMAIN chat_message_cache
                                    THEN CachePut(chat_message_cache, id, req[t].all_messages)
                                    ELSE chat_message_cache
           /\ calls' = [calls EXCEPT !.persist = @ + 1]
           /\ TurnStep(t, [req[t] EXCEPT !.pc = IF req[t].query # "" THEN "save" ELSE "done",
                                         !.outcome = IF req[t].query # "" THEN "none" ELSE "returned",
                                         !.shares = FALSE,
                                         !.seq = calls.persist + 1,
                                         !.after_calls = call.n],
                       [u \in Turns |-> IF req[u].chat_id = id THEN [req[u] EXCEPT !.shares = FALSE]
                                                               ELSE req[u]])
    /\ UNCHANGED <<exec, chats, open_conns, response, call>>

\* update_chat_history, line 20 of manager.py and the test of line 23: the
\* entry becomes the list handed over; with an empty query the turn returns
TurnUpdate(t) ==
    /\ req[t].pc = "update"
    /\ LET id == req[t].chat_id
       IN  /\ chat_message_cache' = CachePut(chat_message_cache, id, req[t].all_messages)
           /\ calls' = [calls EXCEPT !.persist = @ + 1]
           /\ TurnStep(t, [req[t] EXCEPT !.pc = IF req[t].query # "" THEN "save" ELSE "done",
                                         !.outcome = IF req[t].query # "" THEN "none" ELSE "returned",
                                         !.shares = FALSE,
                                         !.seq = calls.persist + 1,
                                         !.after_calls = call.n],
                       [u \in Turns |-> IF req[u].chat_id = id THEN [req[u] EXCEPT !.shares = FALSE]
                                                               ELSE req[u]])
    /\ UNCHANGED <<exec, chats, open_conns, response, call>>

\* save_chat_query (manager.py:63-92) and the return of the response
TurnSave(t) ==
    /\ req[t].pc = "save"
    /\ \E mode \in StoreModes, response_summary \in ResponseSummaries :
         /\ chats' = save_chat_query(chats, req[t].chat_id, req[t].query, response_summary, mode)
         /\ open_conns' = [open_conns EXCEPT !.chats = @ + LeftOpen(mode)]
         /\ TurnStep(t, [req[t] EXCEPT !.pc = "done", !.outcome = "returned", !.persist_mode = mode], req)
    /\ UNCHANGED <<exec, chat_message_cache, calls, response, call>>

\* DELETE /chats/{chat_id} for the conversation of a turn, whatever the
\* turns are doing; the store answers its two statements (what the endpoint
\* does when it fails is part of ConversationsSpec)
DeleteChatDuringTurns ==
    /\ call.n < MaxDeletes
    /\ \E t \in Turns : delete_chat(req[t].chat_id, "ok", "ok")

TurnsNext ==
    \/ \E t \in Turns : TurnExists(t)
    \/ \E t \in Turns : TurnCached(t)
    \/ \E t \in Turns : TurnFetch(t)
    \/ \E t \in Turns : TurnLoad(t)
    \/ \E t \in Turns : TurnRun(t)
    \/ \E t \in Turns : TurnUpdate(t)
    \/ \E t \in Turns : TurnSave(t)
    \/ DeleteChatDuringTurns

TurnsSpec == TurnsInit /\ [][TurnsNext]_vars

(***************************************************************************)
(* validate_and_fix_query applied to generated texts, and applied again to *)
(* its own result (src/api/database/queries.py, lines 18-52)               *)
(***************************************************************************)
\* the texts: SELECT lists, tables, WHERE clauses and tails combined, and
\* texts that are not queries of the dataset
RepairInputs ==
    LET SelectLists == {"*", "final_status", "final_status, final_status", "event_type, final_status"}
        Tables      == {"transactions", "transaction_summary"}
        Wheres      == { "",
                         " WHERE timestamp >= NOW()",
                         " WHERE timestamp = '2025-07-14T00:01:54'",
                         " WHERE timestamp >= '2024-01-01'::timestamptz",
                         " WHERE timestamp::timestamptz >= NOW()",
                         " WHERE final_status = 'FAILED'",
                         " WHERE success_rate > 50",
                         " WHERE count > 5" }
        Tails       == { "", " ORDER BY timestamp DESC", " GROUP BY timestamp",
                         " ORDER BY timestamp::timestamptz", " LIMIT 5;" }
        OtherTexts  == {"", "SELEC * FORM transactions", "DROP TABLE transactions;"}
    IN  {"SELECT " \o list \o " FROM " \o table \o where \o tail :
            list \in SelectLists, table \in Tables, where \in Wheres, tail \in Tails}
        \cup OtherTexts

RepairInit ==
    /\ \E sql \in RepairInputs : req = [IdleReq EXCEPT !.pc = "validate", !.generated = sql]
    /\ exec = IdleExec
    /\ chat_message_cache = EmptyCache
    /\ chats = <<>>
    /\ open_conns = [transactions |-> 0, chats |-> 0]
    /\ calls = NoCalls
    /\ response = NoResult
    /\ call = IdleCall

\* validated_query = validate_and_fix_query(sql_response.sql_query)
Validate ==
    /\ req.pc = "validate"
    /\ req' = [req EXCEPT !.pc = "validated", !.sql_query = validate_and_fix_query(req.generated)]
    /\ UNCHANGED <<exec, chat_message_cache, chats, open_conns, calls, response>>
    /\ UNCHANGED call

\* the result is taken as the text to repair, and repaired
ValidateAgain ==
    /\ req.pc = "validated"
    /\ req' = [req EXCEPT !.pc = "revalidated", !.generated = req.sql_query,
                          !.sql_query = validate_and_fix_query(req.sql_query)]
    /\ UNCHANGED <<exec, chat_message_cache, chats, open_conns, calls, response>>
    /\ UNCHANGED call

RepairNext ==
    \/ Validate
    \/ ValidateAgain

RepairSpec == RepairInit /\ [][RepairNext]_vars

(***************************************************************************)
(* keep_recent_messages applied to message lists, and applied again to its *)
(* own result; summarize_old_messages applied to the same lists            *)
(* (src/api/ai/agents.py, lines 10-36)                                     *)
(***************************************************************************)
\* longest message list given to the processor
MaxMessages == 14

HistoryInit ==
    \* the lists of up to MaxMessages messages, each a request or a response
    /\ \E messages \in UNION {[1..n -> {"request", "response"}] : n \in 0..MaxMessages} :
         req = [IdleReq EXCEPT !.pc = "process", !.message_history = messages]
    /\ exec = IdleExec
    /\ chat_message_cache = EmptyCache
    /\ chats = <<>>
    /\ open_conns = [transactions |-> 0, chats |-> 0]
    /\ calls = NoCalls
    /\ response = NoResult
    /\ call = IdleCall

\* the agent runs its history processor on the list
KeepRecent ==
    /\ req.pc = "process"
    /\ req' = [req EXCEPT !.pc = "processed",
                          !.classify_context = keep_recent_messages(req.message_history)]
    /\ UNCHANGED <<exec, chat_message_cache, chats, open_conns, calls, response>>
    /\ UNCHANGED call

\* the result is taken as the list to process, and processed
KeepRecentAgain ==
    /\ req.pc = "processed"
    /\ req' = [req EXCEPT !.pc = "reprocessed",
                          !.message_history = req.classify_context,
                          !.classify_context = keep_recent_messages(req.classify_context)]
    /\ UNCHANGED <<exec, chat_message_cache, chats, open_conns, calls, response>>
    /\ UNCHANGED call

\* the summarizing processor runs on the list
SummarizeOld ==
    /\ req.pc = "process"
    /\ req' = [req EXCEPT !.pc = "summarized",
                          !.classify_context = summarize_old_messages(req.message_history)]
    /\ UNCHANGED <<exec, chat_message_cache, chats, open_conns, calls, response, call>>

HistoryNext ==
    \/ KeepRecent
    \/ KeepRecentAgain
    \/ SummarizeOld

HistorySpec == HistoryInit /\ [][HistoryNext]_vars

(***************************************************************************)
(* Properties                                                              *)
(***************************************************************************)
Done == req.pc = "done"

\* the ComputedColumnReference error of execute_query
IsComputedColumnReference(e) ==
    e.cls = "HTTPException" /\ e.status_code = 400 /\ Contains(e.detail, "computed column")

\* C1: handle_chat_query never lets an exception escape: whenever the request
\* has ended, the caller holds a returned ChatResponse, which has
\* success = false and a message in summary if a stage failed.
C1_NoExceptionEscapes ==
    Done => /\ response.kind = "return"
            /\ response.value.success = FALSE => response.value.summary # ""

\* C2: in every run there is at most 1 classification call, 2 SQL generation
\* calls, 2 execute_query calls, 1 summarization call, 1 response-summary call
\* and 1 persistence write, and the request ends.
CallBounds ==
    /\ calls.classify <= 1
    /\ calls.generate <= 2
    /\ calls.execute <= 2
    /\ calls.summarize <= 1
    /\ calls.response_summary <= 1
    /\ calls.persist <= 1

C2_RetryDepthCapped == [](CallBounds) /\ <>(Done)

\* a second computed-column failure has ended the request in an error after
\* two generations and two executions
C2_SecondFailureEnds ==
    /\ Done
    /\ calls.generate = 2
    /\ calls.execute = 2
    /\ response.kind = "raise"
    /\ IsComputedColumnReference(response.e)

\* C3: a first execute_query that fails is followed by a regeneration exactly
\* when the failure is the ComputedColumnReference error; the regeneration
\* uses the same augmented prompt and an empty history; every text handed to
\* execute_query is validate_and_fix_query of the text generated last.
RetryOnlyOnComputedColumn ==
    (req.pc = "execute" /\ exec.pc = "done" /\ exec.out.kind = "raise" /\ req'.pc # "execute")
        => (req'.pc = "regenerate" <=> IsComputedColumnReference(exec.out.e))

FreshPromptNoHistory ==
    (req.pc = "regenerate" /\ req'.pc = "execute_fresh")
        => /\ req'.gen_prompt = req.augmented_query
           /\ req'.gen_history = <<>>
           /\ IsComputedColumnReference(req.caught)

ExecutedTextValidated ==
    (exec.pc = "idle" /\ exec'.pc = "connect")
        => exec'.sql_query = validate_and_fix_query(req'.generated)

SecondGenerationIsRetry ==
    calls.generate = 2 => IsComputedColumnReference(req.caught)

C3_RetryDiscipline ==
    /\ [](SecondGenerationIsRetry)
    /\ [][RetryOnlyOnComputedColumn /\ FreshPromptNoHistory /\ ExecutedTextValidated]_vars

\* a regenerated text that validate_and_fix_query had to repair is being executed
C3_RepairedRetryExecuting ==
    /\ req.pc = "execute_fresh"
    /\ exec.pc = "fetch"
    /\ req.message_history # <<>>
    /\ exec.sql_query # req.generated

\* C4: when the classification call times out or raises, the label is sql and
\* the request goes on to SQL generation: it neither ends nor takes the
\* simple path at that point.
C4_ClassificationNeverFatal ==
    (calls.classify = 1 /\ req.classify_outcome # "return")
        => /\ req.query_type = "sql"
           /\ calls.generate = 0 => req.pc = "generate"

\* a request whose classification timed out has had its query executed
C4_TimedOutClassificationServed ==
    /\ req.classify_outcome = "hang"
    /\ req.pc = "summarize"
    /\ req.data > 0

\* C5: in a request classified as simple, neither SQL generation nor
\* execute_query is called, and every ChatResponse returned has an empty
\* sql_query, no data and record_count 0.
C5_SimpleHasNoSql ==
    req.query_type = "simple"
        => /\ calls.generate = 0
           /\ calls.execute = 0
           /\ exec.pc = "idle"
           /\ (Done /\ response.kind = "return")
                 => /\ response.value.sql_query = ""
                    /\ response.value.data = 0
                    /\ response.value.record_count = 0

\* a simple request has ended in a failure response
C5_SimpleFailureReturned ==
    /\ req.query_type = "simple"
    /\ Done
    /\ response.kind = "return"
    /\ response.value.success = FALSE

\* C6: execute_query never returns more than MAX_QUERY_RESULTS rows for a
\* query without a LIMIT clause, whether or not its text contains COUNT.
C6_RowCap ==
    (exec.pc = "done" /\ exec.out.kind = "return" /\ ~HasLimitClause(exec.sql_query))
        => exec.out.value <= MAX_QUERY_RESULTS

\* C7: the text execute_query runs is the query with the limiting clause
\* appended exactly when the query has neither a LIMIT clause nor a COUNT
\* aggregate, and is the query unchanged otherwise.
C7_LimitAppendedExactlyWhenNeeded ==
    exec.pc \in {"finally", "done"} /\ exec.fetched.kind # "none"
        => exec.limited_query =
              IF ~HasLimitClause(exec.sql_query) /\ ~HasCountAggregate(exec.sql_query)
              THEN RStrip(exec.sql_query, ";") \o " LIMIT " \o NatStr(MAX_QUERY_RESULTS) \o ";"
              ELSE exec.sql_query

\* C8: when the store does not answer within the execution timeout,
\* execute_query raises status 408, not 500, with the hint to try a simpler query.
C8_TimeoutIs408 ==
    (exec.pc = "done" /\ exec.fetched.kind = "hang")
        => /\ exec.out.kind = "raise"
           /\ exec.out.e.status_code = 408
           /\ Contains(exec.out.e.detail, "simpler query")

\* C9: a store failure saying that a column does not exist and naming
\* final_status, success_rate or count becomes status 400 with a detail that
\* mentions a computed column; every other store failure becomes status 500
\* with the store's message in the detail.
NamesComputedColumn(name) ==
    \E computed_col \in {"final_status", "success_rate", "count"} : Contains(Lower(name), computed_col)

C9_TwoFailureKinds ==
    (exec.pc = "done" /\ exec.error # <<>>)
        => /\ exec.out.kind = "raise"
           /\ exec.out.e.cls = "HTTPException"
           /\ IF exec.error[1] = "undefined_column" /\ NamesComputedColumn(exec.error[2])
              THEN /\ exec.out.e.status_code = 400
                   /\ Contains(exec.out.e.detail, "computed column")
              ELSE /\ exec.out.e.status_code = 500
                   /\ Contains(exec.out.e.detail, StoreErrorMessage(exec.error[1], exec.error[2]))

\* the store rejected a call of count(...) it does not have: not a column failure
C9_MissingFunctionIs500 ==
    /\ exec.pc = "done"
    /\ exec.error = <<"undefined_function", "count">>
    /\ exec.out.e.status_code = 500

\* C10: once execute_query has returned or raised, no connection it acquired
\* is open.
C10_ConnectionReleased ==
    exec.pc \in {"idle", "done"} => open_conns.transactions = 0

\* execute_query has raised after acquiring a connection, and closed it
C10_ClosedAfterFailure ==
    /\ exec.pc = "done"
    /\ exec.conn = "closed"
    /\ exec.out.kind = "raise"

\* C11: every durable-store function of the chat manager releases its
\* connection on every exit path: between the steps of a request no
\* connection to the chats store is open.
C11_ChatsConnectionReleased ==
    open_conns.chats = 0

\* C12: validate_and_fix_query is idempotent: repairing a repaired text gives
\* the same text, also for texts that mention final_status more than once in
\* the SELECT list.
C12_RepairIdempotent ==
    req.pc = "revalidated" => req.sql_query = req.generated

\* SQL reading of a text: a comparison on the timestamp column without a cast
BareComparison == <<WordBoundary, Lit("timestamp"), Sp0, Rep("cmp", 1, 1, TRUE)>>

\* SQL reading of a text: ORDER BY / GROUP BY on the timestamp column without a cast
BareOrderBy == <<Lit("ORDER BY"), Sp1, Lit("timestamp"), WordBoundary, NotAhead("::")>>

BareGroupBy == <<Lit("GROUP BY"), Sp1, Lit("timestamp"), WordBoundary, NotAhead("::")>>

HasBareTimestamp(sql) ==
    Only({\/ Search(BareComparison, text, 1) # 0
          \/ Search(BareOrderBy, text, 1) # 0
          \/ Search(BareGroupBy, text, 1) # 0 : text \in {sql}})

\* C13: after validate_and_fix_query no comparison, ORDER BY or GROUP BY on
\* the timestamp column is left without the cast to timestamptz, whatever the
\* right-hand operand is, and a text whose timestamp references are all cast
\* already is left as it is by the timestamp fixes.
C13_TimestampAlwaysCast ==
    req.pc = "validated" =>
        /\ ~HasBareTimestamp(req.sql_query)
        /\ ~HasBareTimestamp(req.generated) =>
               ApplyFixes(timestamp_fixes, 1, req.generated) = req.generated

\* the names the fixes know
KnownNames == {"final_status", "success_rate", "count", "transaction_summary"}

MentionsKnownPattern(sql) ==
    \/ \E name \in KnownNames : Contains(Lower(sql), name)
    \/ HasBareTimestamp(sql)

\* C14: validate_and_fix_query returns a text for every input, and a text
\* that mentions none of final_status, success_rate, count,
\* transaction_summary and no bare timestamp reference is returned unchanged.
C14_UnknownTextUnchanged ==
    req.pc \in {"validated", "revalidated"} =>
        /\ Len(req.sql_query) >= 0
        /\ ~MentionsKnownPattern(req.generated) => req.sql_query = req.generated

\* malformed SQL has gone through the repair as it was
C14_MalformedPassedThrough ==
    /\ req.pc = "validated"
    /\ req.generated = "SELEC * FORM transactions"
    /\ req.sql_query = "SELEC * FORM transactions"

\* C15: a timeout of the summarization call on the SQL path is not fatal: the
\* response has success true, the rows fetched and the summary templated from
\* their number, and the request goes on to the response summary and to
\* persistence before it returns that response.
C15_SummaryTimeoutNotFatal ==
    (req.query_type = "sql" /\ req.summarize_outcome = "hang") =>
        /\ req.pc \in {"response_summary", "persist", "done"}
        /\ req.chat_response.success
        /\ req.chat_response.data = req.data
        /\ req.chat_response.record_count = req.data
        /\ req.chat_response.summary =
               "Query executed successfully. Retrieved " \o NatStr(req.data) \o " records."
        /\ Done => /\ response = Returns(req.chat_response)
                   /\ calls.response_summary = 1
                   /\ calls.persist = 1

\* the summarization timed out and the rows were returned all the same
C15_TimedOutSummaryReturned ==
    /\ Done
    /\ req.summarize_outcome = "hang"
    /\ req.query_type = "sql"
    /\ response.kind = "return"
    /\ response.value.success
    /\ response.value.record_count = 1
    /\ response.value.summary = "Query executed successfully. Retrieved 1 records."

\* C16: a timeout or any other failure of the response-summary call is not
\* fatal on either path: response_summary is a fallback text, success stays
\* true and the turn is handed to persistence before the response returns.
C16_ResponseSummaryNeverFatal ==
    req.response_summary_outcome \in {"hang", "raise"} =>
        /\ req.pc \in {"persist", "simple_persist", "done"}
        /\ req.chat_response.success
        /\ req.chat_response.response_summary \notin ResponseSummaries \cup {"None", ""}
        /\ Slice(req.chat_response.response_summary, 1, 7) = "Summary"
        /\ Done => /\ response = Returns(req.chat_response)
                   /\ calls.persist = 1

\* the response summary failed on the simple path and the answer was returned
C16_FailedResponseSummaryReturned ==
    /\ Done
    /\ req.query_type = "simple"
    /\ req.response_summary_outcome = "raise"
    /\ response.kind = "return"
    /\ response.value.success
    /\ response.value.response_summary = "Summary generation error: model request failed"

\* C17: a persistence failure is swallowed: whatever the store does during
\* update_chat_history, the step returns the ChatResponse built before it,
\* which is the one returned when the write succeeds.
C17_PersistenceFailureSwallowed ==
    [][req.pc \in {"persist", "simple_persist"} =>
          /\ req'.pc = "done"
          /\ response' = Returns(req.chat_response)
          /\ response'.value.success]_vars

\* the insert failed and the caller got the response
C17_InsertFailedResponseReturned ==
    /\ Done
    /\ req.persist_mode = "statement_fail"
    /\ \A i \in 1..Len(chats) : chats[i].chat_id # req.chat_id
    /\ response = Returns(req.chat_response)
    /\ response.value.success

\* the conversation id is in the in-memory cache or in the durable store
KnownChat(chat_id) ==
    \/ chat_id \in DOMAIN chat_message_cache
    \/ \E i \in 1..Len(chats) : chats[i].chat_id = chat_id

\* C18: a request whose mode is not new fails with 400 when it has no
\* conversation id and with 404 when its id is in neither the cache nor the
\* store, both before any classification, generation or execution call; an
\* id known to either is not answered with not found.
C18_ExistingChatChecked ==
    (Done /\ req.request.chat_type # "new") =>
        /\ req.request.chat_id = "None" =>
               /\ response.kind = "raise"
               /\ response.e.status_code = 400
               /\ calls = NoCalls
        /\ (req.request.chat_id # "None" /\ ~KnownChat(req.request.chat_id)) =>
               /\ response.kind = "raise"
               /\ response.e.status_code = 404
               /\ calls = NoCalls
        /\ (req.request.chat_id # "None" /\ KnownChat(req.request.chat_id)) =>
               ~(response.kind = "raise" /\ response.e.status_code = 404)

C21_SummarizeOldKeepsFirstSummaryLastFour ==
    req.pc = "summarized" =>
        LET given  == req.message_history
            result == req.classify_context
        IN  IF Len(given) > 12
            THEN /\ Len(result) = 6
                 /\ result[1] = given[1]
                 /\ result[2] = "summary"
                 /\ \A i \in 1..4 : result[2 + i] = given[Len(given) - 4 + i]
            ELSE result = given

\* a list of 13 messages was cut down to six
C21_ThirteenMessagesSummarized ==
    /\ req.pc = "summarized"
    /\ Len(req.message_history) = 13
    /\ Len(req.classify_context) = 6

\* C22: when the cache already holds messages for the conversation, loading
\* its messages returns exactly the cached messages, without adding another
\* context message; the context message is built from the stored summaries
\* only when the cache holds nothing for the conversation.
C22_CachedHistoryLoadedUnchanged ==
    [][(/\ req.pc = "load"
        /\ req'.pc = "classify"
        /\ req.chat_id \in DOMAIN chat_message_cache
        /\ chat_message_cache[req.chat_id] # <<>>)
       => /\ req'.message_history = chat_message_cache[req.chat_id]
          /\ chat_message_cache'[req.chat_id] = chat_message_cache[req.chat_id]]_vars

\* C23: when delete_chat is called, with no chat request in progress, for a
\* conversation id that the cache or the chats table knows, then after the
\* call the id is in neither of them, so that an existence check or an
\* existing-mode request that follows finds nothing.
C23_DeletedChatGone ==
    [][(/\ call'.op = "delete_chat"
        /\ call'.n = call.n + 1
        /\ \/ call'.chat_id \in DOMAIN chat_message_cache
           \/ \E i \in 1..Len(chats) : chats[i].chat_id = call'.chat_id)
       => /\ call'.chat_id \notin DOMAIN chat_message_cache'
          /\ \A i \in 1..Len(chats') : chats'[i].chat_id # call'.chat_id]_vars

\* C24: the conversation listing, when the store answers, holds exactly one
\* row for each conversation id that has rows in the chats table, and that
\* row is the most recent row of the conversation.
C24_ListingHasMostRecentRow ==
    (call.op = "get_all_chats" /\ call.pc = "done" /\ call.log[1].mode = "ok") =>
        LET listed == call.result.value.data.chats
            RowsOf(id) == { i \in 1..Len(chats) : chats[i].chat_id = id }
        IN  /\ \A r \in listed : RowsOf(r.chat_id) # {}
            /\ \A id \in ChatIds :
                 RowsOf(id) # {} =>
                    /\ Cardinality({ r \in listed : r.chat_id = id }) = 1
                    /\ \A r \in listed :
                         r.chat_id = id => \A i \in RowsOf(id) : i <= r.at

\* C25: save_chat_query, load_chat_history_from_db, get_all_chats_from_db,
\* delete_chat_from_db and chat_exists_in_db never propagate a failure of the
\* store: when the connection or a statement fails, the function gives back
\* nothing, an empty list or False, and the endpoint that called it returns
\* a response.
C25_StoreFailureNotPropagated ==
    call.op \in {"get_all_chats", "get_chat_history", "delete_chat", "update_chat_title"} =>
        /\ call.pc = "done"
        /\ call.result.kind = "return"
        /\ \A i \in 1..Len(call.log) :
             LET called == call.log[i]
             IN  called.mode # "ok" =>
                   CASE called.fn = "save_chat_query"           -> called.out = "None"
                     [] called.fn = "load_chat_history_from_db" -> called.out = <<>>
                     [] called.fn = "get_all_chats_from_db"     -> called.out = {}
                     [] called.fn = "delete_chat_from_db"       -> called.out = FALSE
                     [] called.fn = "chat_exists_in_db"         -> called.out = FALSE

\* the delete statement failed and delete_chat reported the failed deletion
C25_FailedDeleteReported ==
    /\ call.op = "delete_chat"
    /\ Len(call.log) = 2
    /\ call.log[2].mode = "statement_fail"
    /\ call.log[2].out = FALSE
    /\ call.result.kind = "return"
    /\ call.result.value.error = "Database deletion failed"

\* C26: an existing-mode request whose conversation id is in the cache goes
\* on to classification once its context is loaded, whatever the chats store
\* does during the load (with a context that is empty or holds the cached
\* messages); a failing store never ends the request there.
C26_LoadFailureDegrades ==
    [][(/\ req.pc = "load"
        /\ req.chat_id \in DOMAIN chat_message_cache
        /\ req' # req)
       => /\ req'.pc = "classify"
          /\ response' = NoResult
          /\ \/ req'.message_history = <<>>
             \/ req'.message_history = chat_message_cache[req.chat_id]
             \/ req'.message_history = Append(chat_message_cache[req.chat_id], "context")]_vars

\* C27: every call of an endpoint eventually ends with a response or an
\* error, even when the model it asks never answers; in particular a call of
\* the generate-sql endpoint does.
C27_EveryCallCompletes ==
    [](call.op # "none" => <>(call.pc = "done"))

\* C28: turns are append-only.  Whatever the chat endpoint and the title,
\* list, history and delete endpoints do in one step, the rows of the chats
\* table stay as they are, or one row is added after them, or all the rows
\* of one conversation id are removed; no row that stays is changed.
C28_TurnsAppendOnly ==
    [][\/ chats' = chats
       \/ /\ Len(chats') = Len(chats) + 1
          /\ SubSeq(chats', 1, Len(chats)) = chats
       \/ \E id \in ChatIds :
            chats' = SelectSeq(chats, LAMBDA row : row.chat_id # id)]_vars

\* a title update was saved as a new row behind the turn of the conversation
C28_TitleSavedAsNewRow ==
    /\ call.op = "update_chat_title"
    /\ call.result.value.success
    /\ Len(chats) >= 2
    /\ chats[1].query = "How many transactions failed?"
    /\ chats[Len(chats)].query = "[TITLE_UPDATE]: Failures"
    /\ chats[Len(chats)].chat_id = chats[1].chat_id

\* the functions a call of an endpoint called, in order
FunctionsCalled == [i \in 1..Len(call.log) |-> call.log[i].fn]

\* C29: a webhook whose state is not alerting calls nothing: it fetches no
\* transaction details, generates no summary, persists no alert and sends no
\* notification.
C29_NotAlertingCallsNothing ==
    (call.op = "grafana_webhook" /\ call.state # "alerting") =>
        call.log = <<>>

\* the webhook {state: "ok", message: "txn_1"} was handled without any call
C29_OkWebhookHandled ==
    /\ call.op = "grafana_webhook"
    /\ call.pc = "done"
    /\ call.state = "ok"
    /\ call.text = "txn_1"
    /\ call.log = <<>>

\* the four steps of the failure analysis, in the order of the handler
AnalysisSteps ==
    <<"transaction_details_from_db", "failed_transaction_retry_agent.run",
      "insert_transaction_details_to_db", "send_alert_to_slack">>

C34_ResponseConsistent ==
    (req.pc = "done" /\ response.kind = "return") =>
        LET r == response.value
        IN  IF r.success
            THEN req.query_type # "simple" =>
                   /\ r.record_count = r.data
                   /\ r.data = req.data
                   /\ r.sql_query = validated_query_of[req.generated]
            ELSE /\ r.sql_query = ""
                 /\ r.data = 0
                 /\ r.record_count = 0

\* a request answered with rows after the retry: the response carries the
\* repaired text of the regenerated query
C34_RetriedResponseReturned ==
    /\ req.pc = "done"
    /\ response.kind = "return"
    /\ response.value.success
    /\ calls.generate = 2
    /\ calls.execute = 2
    /\ response.value.data > 0
    /\ response.value.record_count = response.value.data
    /\ response.value.sql_query = validated_query_of[req.generated]

NewChatFailed ==
    /\ req.pc = "done"
    /\ req.request.chat_type = "new"
    /\ response.kind = "return"
    /\ ~response.value.success

\* the cache entry create_new_chat made is still empty and the chats table
\* has no row of the conversation
CreatedChatLeftEmpty ==
    /\ req.chat_id \in DOMAIN chat_message_cache
    /\ chat_message_cache[req.chat_id] = <<>>
    /\ \A i \in 1..Len(chats) : chats[i].chat_id # req.chat_id

C37_LoadChangesCacheForGood ==
    [][/\ (req.pc = "load" /\ req'.pc = "classify") =>
             LET id       == req.chat_id
                 before   == IF id \in DOMAIN chat_message_cache
                             THEN chat_message_cache[id] ELSE <<>>
                 summary  == \E i \in 1..Len(chats) :
                                /\ chats[i].chat_id = id
                                /\ chats[i].summary \notin {"None", ""}
             IN  /\ id \in DOMAIN chat_message_cache'
                 /\ chat_message_cache'[id] =
                       IF summary THEN Append(before, "context") ELSE before
                 /\ req'.message_history = chat_message_cache'[id]
       /\ (/\ req.request.chat_type = "existing"
           /\ req.pc \notin {"idle", "exists", "load", "done"}
           /\ req'.pc = "done"
           /\ ~(response'.kind = "return" /\ response'.value.success)) =>
             /\ chat_message_cache' = chat_message_cache
             /\ chat_message_cache[req.chat_id] = req.message_history]_vars

\* a conversation that was in the store only: its request failed after the
\* load and left the cache entry the load made, holding a context message
C37_FailedRequestLeftContext ==
    /\ req.pc = "done"
    /\ req.request.chat_type = "existing"
    /\ calls.classify = 1
    /\ response.kind = "return"
    /\ ~response.value.success
    /\ req.chat_id \in DOMAIN chat_message_cache
    /\ chat_message_cache[req.chat_id] = <<"context">>

\* C38: update_chat_history replaces the cache entry before the insert and
\* keeps it when the insert fails: a persistence step whose insert failed
\* ends with the turn's messages in the cache and the chats table as it was,
\* and still returns the response of the turn.
C38_CacheUpdatedWithoutRow ==
    [][(req.pc \in {"persist", "simple_persist"} /\ req'.pc = "done"
        /\ req'.persist_mode # "ok") =>
          /\ req.request.query # ""
          /\ req.chat_id \in DOMAIN chat_message_cache'
          /\ chat_message_cache'[req.chat_id] = req.all_messages
          /\ chats' = chats
          /\ response' = Returns(req.chat_response)]_vars

\* a finished turn whose insert failed: its messages are cached, and the
\* chats table has no row of the conversation
C38_CachedTurnWithoutRow ==
    /\ req.pc = "done"
    /\ req.persist_mode \in {"connect_fail", "statement_fail"}
    /\ calls.persist = 1
    /\ req.all_messages # <<>>
    /\ req.chat_id \in DOMAIN chat_message_cache
    /\ chat_message_cache[req.chat_id] = req.all_messages
    /\ \A i \in 1..Len(chats) : chats[i].chat_id # req.chat_id

\* s is an initial part of t
IsPrefix(s, t) == Len(s) <= Len(t) /\ SubSeq(t, 1, Len(s)) = s

\* two turns of one conversation that ran one after the other, t before u,
\* with no call of delete_chat: both called update_chat_history
RanInSequence(t, u) ==
    /\ t # u
    /\ call.n = 0
    /\ req[t].pc = "done" /\ req[u].pc = "done"
    /\ ~req[t].overlapped /\ ~req[u].overlapped
    /\ 0 < req[t].seq /\ req[t].seq < req[u].seq

\* the list cached after turn u holds what turn t cached, and after it what
\* turn u added
KeepsBoth(t, u) ==
    /\ chat_message_cache[req[u].chat_id] = req[u].all_messages
    /\ IsPrefix(req[t].all_messages, req[u].message_history)
    /\ IsPrefix(req[u].message_history, req[u].all_messages)
    /\ Len(req[u].all_messages) > Len(req[u].message_history)

LeavesPersistence(t) ==
    /\ req[t].pc \in {"update", "save"}
    /\ req'[t].pc = "done"
    /\ req'[t].persist_mode \notin {"connect_fail", "statement_fail"}

\* C32 as stated: whatever the interleaving, a turn that leaves the
\* persistence step with a working store has inserted one row.
C32_EveryTurnInsertsOneRow ==
    [][\A t \in Turns : LeavesPersistence(t) => Len(chats') = Len(chats) + 1]_vars

\* C32: whatever the interleaving, a turn with a non-empty query that leaves
\* the persistence step with a working store has appended exactly one row,
\* the row of its conversation and query, and a turn with an empty query
\* leaves it without a row; no step of a turn removes or changes a row.  The
\* table therefore holds a row for every completed turn with a non-empty
\* query, whatever became of the cache.
C32_EveryNonEmptyTurnInsertsOneRow ==
    [][/\ \A t \in Turns :
            LeavesPersistence(t) =>
               IF req[t].query # ""
               THEN /\ req[t].pc = "save"
                    /\ \E response_summary \in ResponseSummaries :
                          chats' = Append(chats, ChatRow(req[t].chat_id, req[t].query, response_summary))
               ELSE req[t].pc = "update" /\ chats' = chats
       /\ \A t \in Turns :
            (req[t].pc = "update" /\ req'[t].pc # "update") =>
               /\ chats' = chats
               /\ req'[t].pc = IF req[t].query # "" THEN "save" ELSE "done"
       /\ call' = call => IsPrefix(chats, chats') /\ Len(chats') <= Len(chats) + 1]_vars

\* the cache has lost a turn and the table has not: two overlapping turns
\* with non-empty queries read the same history, the cached list holds the
\* messages of one of them, and the last two rows of the table are theirs
C32_BothRowsAfterLostUpdate ==
    \E t \in Turns, u \in Turns :
       /\ t # u
       /\ call.n = 0
       /\ req[t].pc = "done" /\ req[u].pc = "done"
       /\ req[t].query # "" /\ req[u].query # ""
       /\ req[t].persist_mode = "ok" /\ req[u].persist_mode = "ok"
       /\ req[t].seq < req[u].seq
       /\ req[t].message_history = req[u].message_history
       /\ req[t].all_messages # <<>>
       /\ chat_message_cache[req[u].chat_id] = req[u].message_history \o NewMessages
       /\ Len(chats) >= 2
       /\ \A i \in {Len(chats) - 1, Len(chats)} :
             chats[i].chat_id = req[u].chat_id /\ chats[i].query = req[u].query

\* the last call of delete_chat was for the conversation of turn t and
\* returned success
DeletedFor(t) ==
    /\ call.op = "delete_chat"
    /\ call.chat_id = req[t].chat_id
    /\ call.result.kind = "return"
    /\ call.result.value.success

\* the conversation of turn t is in the cache and has a row in the table
KnownAgain(t, cache, rows) ==
    /\ req[t].chat_id \in DOMAIN cache
    /\ \E i \in 1..Len(rows) : rows[i].chat_id = req[t].chat_id

====
